---------------------------- MODULE Spec2Model ----------------------------
(***************************************************************************)
(* A model of the XDAA client handshake of xaptum-client-python:           *)
(*   - the wire messages of xaptum/xdaa/message.py (struct pack/unpack),   *)
(*   - the FSM harness of xaptum/fsm/fsm.py (become, delegate, unhandled), *)
(*   - the handshake engine of xaptum/xdaa/handshake.py,                   *)
(*   - the SyncCrypto backend and the MockServer driver loop of the tests, *)
(*   - the SyncSocket backend of xaptum/xdaa/sync/io.py on a stream socket,*)
(*   - the decode_message harness of the message tests.                    *)
(*   - the key bundle string of xaptum/xdaa/daa.py, the X25519 public key  *)
(*     encodings of xaptum/crypto/x25519.py,                               *)
(*   - negotiate_secret of xaptum/xdaa/xdaa.py on a stream socket, and two *)
(*     engines driven side by side,                                        *)
(*   - the FSM methods of xaptum/fsm/fsm.py on ping/pong machines linked   *)
(*     as parent and child, and the two methods of StepMixin.              *)
(* Python objects are records, byte strings are sequences of 0..255, an    *)
(* exception is the `exc` field of the outcome of a call.                  *)
(***************************************************************************)
EXTENDS Integers, Sequences, FiniteSets, TLC

VARIABLES
    handshake,   \* the XDAAHandshake object: current, maybeChild, context
    returned,    \* the last receive() call: kind of the event fed, event returned or None, exception raised
    log,         \* history: the calls that changed the engine or returned an event, in order
    calls,       \* number of receive() calls made by the driver that feeds any event
    server,      \* the MockServer object of the test driver loop
    loop,        \* the test's negotiate_secret loop: pc, the event in hand, the randomness drawn
    codec,       \* the message under test: class, constructed message, bytes, parsed message, position
    sock,        \* a SyncSocket on a stream: bytes to read and written, the recvexactly call in progress
    keys,        \* the key bundle string under test and what Keys.from_csv and negotiate_secret make of it
    pubkey,      \* the X25519 public key under test: the bytes given, the object decoded, the bytes encoded
    other,       \* a second XDAAHandshake object driven next to the first, and its last call
    tree         \* FSM objects linked as parent and child, the events their states were passed, the last method call; or one StepMixin object and its last call

vars == <<handshake, returned, log, calls, server, loop, codec, sock, keys, pubkey, other, tree>>

-----------------------------------------------------------------------------
(* Bounds of the model *)

\* length of an X25519 key encoding in the model
KeyLen == 2
\* receive() calls of the driver that may feed any event
MaxCalls == 8

(* Program constants *)

\* CreateNonce(size=32)
NonceSize == 32

-----------------------------------------------------------------------------
(* Python values *)

\* None where a byte string is expected (no byte is negative)
NoneBytes == <<-1>>
\* None where an object is expected
None == [type |-> "NoneType"]
\* an attribute that was never assigned (reading it raises AttributeError)
Unset == [type |-> "unset"]

Reverse(s) == [i \in 1..Len(s) |-> s[Len(s) + 1 - i]]

\* s[a:b] of Python, 0-based, for 0 <= a <= b
Slice(s, a, b) == SubSeq(s, a + 1, IF b <= Len(s) THEN b ELSE Len(s))

(* struct *)

\* struct.pack('!H', n) as two bytes, big-endian; n in 0..65535
PackH(n) == <<n \div 256, n % 256>>

\* struct.unpack('!H', <<hi, lo>>)
UnpackH(hi, lo) == hi * 256 + lo

\* struct.pack('%ds' % n, b): exactly n bytes, b truncated or zero-padded
PackS(n, b) == [i \in 1..n |-> IF i <= Len(b) THEN b[i] ELSE 0]

\* the range check of struct.pack for 'B' and 'H'
FitsB(n) == n >= 0 /\ n <= 255
FitsH(n) == n >= 0 /\ n <= 65535

-----------------------------------------------------------------------------
(* xaptum/xdaa/message.py *)

Ok(v)   == [ok |-> TRUE, value |-> v, error |-> "none"]
Err(e)  == [ok |-> FALSE, value |-> None, error |-> e]

ClientHelloMessage(client_group_id, client_nonce) ==
    [version             |-> 0,
     client_group_id_len |-> Len(client_group_id),
     client_nonce_len    |-> Len(client_nonce),
     client_group_id     |-> client_group_id,
     client_nonce        |-> client_nonce]

ClientHelloMessage_header_len == 5

\* faulty variant: the version byte is not looked at
parse_header_version_unchecked(header) ==
    IF Len(header) # 5 THEN Err("InvalidMessageError")
    ELSE LET client_group_id_len == UnpackH(header[2], header[3])
             client_nonce_len    == UnpackH(header[4], header[5])
         IN  Ok([message |-> [ClientHelloMessage(<<>>, <<>>) EXCEPT
                                 !.client_group_id_len = client_group_id_len,
                                 !.client_nonce_len    = client_nonce_len],
                 length  |-> client_group_id_len + client_nonce_len])

ClientHelloMessage_parse_header(header) ==
    IF Len(header) # 5 THEN Err("InvalidMessageError")
    ELSE LET version             == header[1]
             client_group_id_len == UnpackH(header[2], header[3])
             client_nonce_len    == UnpackH(header[4], header[5])
         IN  IF version # 0 THEN Err("InvalidMessageError")
             ELSE Ok([message |-> [ClientHelloMessage(<<>>, <<>>) EXCEPT
                                      !.client_group_id_len = client_group_id_len,
                                      !.client_nonce_len    = client_nonce_len],
                      length  |-> client_group_id_len + client_nonce_len])

ClientHelloMessage_parse_body(self, data) ==
    IF Len(data) # self.client_group_id_len + self.client_nonce_len
    THEN Err("InvalidMessageError")
    ELSE Ok([self EXCEPT
                !.client_group_id = Slice(data, 0, self.client_group_id_len),
                !.client_nonce    = Slice(data, self.client_group_id_len, Len(data))])

\* faulty variant: the two lengths are packed little-endian
serialize_little_endian_lengths(self) ==
    IF ~(FitsB(self.version) /\ FitsH(self.client_group_id_len)
                             /\ FitsH(self.client_nonce_len))
    THEN Err("struct.error")
    ELSE Ok(<<self.version>> \o Reverse(PackH(self.client_group_id_len))
                             \o Reverse(PackH(self.client_nonce_len))
                             \o PackS(self.client_group_id_len, self.client_group_id)
                             \o PackS(self.client_nonce_len, self.client_nonce))

ClientHelloMessage_serialize(self) ==
    IF ~(FitsB(self.version) /\ FitsH(self.client_group_id_len)
                             /\ FitsH(self.client_nonce_len))
    THEN Err("struct.error")
    ELSE Ok(<<self.version>> \o PackH(self.client_group_id_len)
                             \o PackH(self.client_nonce_len)
                             \o PackS(self.client_group_id_len, self.client_group_id)
                             \o PackS(self.client_nonce_len, self.client_nonce))

ServerKeyExchangeMessage(server_group_id, server_nonce, server_ecdhe_public_key, signature) ==
    [version                     |-> 0,
     server_group_id_len         |-> Len(server_group_id),
     server_nonce_len            |-> Len(server_nonce),
     server_ecdhe_public_key_len |-> Len(server_ecdhe_public_key),
     signature_len               |-> Len(signature),
     server_group_id             |-> server_group_id,
     server_nonce                |-> server_nonce,
     server_ecdhe_public_key     |-> server_ecdhe_public_key,
     signature                   |-> signature]

ServerKeyExchangeMessage_header_len == 9

\* faulty variant: the nonce is packed before the key
serialize_for_signature_nonce_first(server_ecdhe_public_key, client_nonce) ==
    IF server_ecdhe_public_key = NoneBytes \/ client_nonce = NoneBytes
    THEN Err("TypeError")
    ELSE Ok(PackS(Len(client_nonce), client_nonce)
            \o PackS(Len(server_ecdhe_public_key), server_ecdhe_public_key))

\* struct.pack('!%ds%ds' % (len(a), len(b)), a, b); len(None) is a TypeError
ServerKeyExchangeMessage_serialize_for_signature(server_ecdhe_public_key, client_nonce) ==
    IF server_ecdhe_public_key = NoneBytes \/ client_nonce = NoneBytes
    THEN Err("TypeError")
    ELSE Ok(PackS(Len(server_ecdhe_public_key), server_ecdhe_public_key)
            \o PackS(Len(client_nonce), client_nonce))

\* faulty variant: the body length leaves out the signature
parse_header_without_signature_len(header) ==
    IF Len(header) # 9 THEN Err("InvalidMessageError")
    ELSE LET version                     == header[1]
             server_group_id_len         == UnpackH(header[2], header[3])
             server_nonce_len            == UnpackH(header[4], header[5])
             server_ecdhe_public_key_len == UnpackH(header[6], header[7])
             signature_len               == UnpackH(header[8], header[9])
         IN  IF version # 0 THEN Err("InvalidMessageError")
             ELSE Ok([message |-> [ServerKeyExchangeMessage(<<>>, <<>>, <<>>, <<>>) EXCEPT
                                      !.server_group_id_len         = server_group_id_len,
                                      !.server_nonce_len            = server_nonce_len,
                                      !.server_ecdhe_public_key_len = server_ecdhe_public_key_len,
                                      !.signature_len               = signature_len],
                      length  |-> server_group_id_len + server_nonce_len
                                  + server_ecdhe_public_key_len])

ServerKeyExchangeMessage_parse_header(header) ==
    IF Len(header) # 9 THEN Err("InvalidMessageError")
    ELSE LET version                     == header[1]
             server_group_id_len         == UnpackH(header[2], header[3])
             server_nonce_len            == UnpackH(header[4], header[5])
             server_ecdhe_public_key_len == UnpackH(header[6], header[7])
             signature_len               == UnpackH(header[8], header[9])
         IN  IF version # 0 THEN Err("InvalidMessageError")
             ELSE Ok([message |-> [ServerKeyExchangeMessage(<<>>, <<>>, <<>>, <<>>) EXCEPT
                                      !.server_group_id_len         = server_group_id_len,
                                      !.server_nonce_len            = server_nonce_len,
                                      !.server_ecdhe_public_key_len = server_ecdhe_public_key_len,
                                      !.signature_len               = signature_len],
                      length  |-> server_group_id_len + server_nonce_len
                                  + server_ecdhe_public_key_len + signature_len])

\* faulty variant: the fields are cut from a body of any length
parse_body_lenient(self, data) ==
    LET g == self.server_group_id_len
        n == self.server_nonce_len
        p == self.server_ecdhe_public_key_len
        s == self.signature_len
    IN  Ok([self EXCEPT
               !.server_group_id         = Slice(data, 0, g),
               !.server_nonce            = Slice(data, g, g + n),
               !.server_ecdhe_public_key = Slice(data, g + n, g + n + p),
               !.signature               = Slice(data, g + n + p, g + n + p + s)])

ServerKeyExchangeMessage_parse_body(self, data) ==
    LET g == self.server_group_id_len
        n == self.server_nonce_len
        p == self.server_ecdhe_public_key_len
        s == self.signature_len
    IN  IF Len(data) # g + n + p + s THEN Err("InvalidMessageError")
        ELSE Ok([self EXCEPT
                    !.server_group_id         = Slice(data, 0, g),
                    !.server_nonce            = Slice(data, g, g + n),
                    !.server_ecdhe_public_key = Slice(data, g + n, g + n + p),
                    !.signature               = Slice(data, g + n + p, g + n + p + s)])

ServerKeyExchangeMessage_serialize(self) ==
    IF ~(FitsB(self.version) /\ FitsH(self.server_group_id_len)
            /\ FitsH(self.server_nonce_len)
            /\ FitsH(self.server_ecdhe_public_key_len)
            /\ FitsH(self.signature_len))
    THEN Err("struct.error")
    ELSE Ok(<<self.version>> \o PackH(self.server_group_id_len)
                             \o PackH(self.server_nonce_len)
                             \o PackH(self.server_ecdhe_public_key_len)
                             \o PackH(self.signature_len)
                             \o PackS(self.server_group_id_len, self.server_group_id)
                             \o PackS(self.server_nonce_len, self.server_nonce)
                             \o PackS(self.server_ecdhe_public_key_len,
                                      self.server_ecdhe_public_key)
                             \o PackS(self.signature_len, self.signature))

ClientKeyExchangeMessage(client_ecdhe_public_key, signature) ==
    [version                     |-> 0,
     client_ecdhe_public_key_len |-> Len(client_ecdhe_public_key),
     signature_len               |-> Len(signature),
     client_ecdhe_public_key     |-> client_ecdhe_public_key,
     signature                   |-> signature]

ClientKeyExchangeMessage_header_len == 5

\* `format` is built (len(None) is a TypeError), then the undefined global
\* `sig_format` is read: NameError, whatever the arguments
ClientKeyExchangeMessage_serialize_for_signature(client_ecdhe_public_key, server_nonce) ==
    IF client_ecdhe_public_key = NoneBytes \/ server_nonce = NoneBytes
    THEN Err("TypeError")
    ELSE Err("NameError")

\* faulty variant: a header of another length is cut or padded with zero
\* bytes to five bytes
parse_header_zero_padded(header) ==
    LET version                     == PackS(5, header)[1]
        client_ecdhe_public_key_len == UnpackH(PackS(5, header)[2], PackS(5, header)[3])
        signature_len               == UnpackH(PackS(5, header)[4], PackS(5, header)[5])
    IN  IF version # 0 THEN Err("InvalidMessageError")
        ELSE Ok([message |-> [ClientKeyExchangeMessage(<<>>, <<>>) EXCEPT
                                 !.client_ecdhe_public_key_len = client_ecdhe_public_key_len,
                                 !.signature_len               = signature_len],
                 length  |-> client_ecdhe_public_key_len + signature_len])

ClientKeyExchangeMessage_parse_header(header) ==
    IF Len(header) # 5 THEN Err("InvalidMessageError")
    ELSE LET version                     == header[1]
             client_ecdhe_public_key_len == UnpackH(header[2], header[3])
             signature_len               == UnpackH(header[4], header[5])
         IN  IF version # 0 THEN Err("InvalidMessageError")
             ELSE Ok([message |-> [ClientKeyExchangeMessage(<<>>, <<>>) EXCEPT
                                      !.client_ecdhe_public_key_len = client_ecdhe_public_key_len,
                                      !.signature_len               = signature_len],
                      length  |-> client_ecdhe_public_key_len + signature_len])

ClientKeyExchangeMessage_parse_body(self, data) ==
    IF Len(data) # self.client_ecdhe_public_key_len + self.signature_len
    THEN Err("InvalidMessageError")
    ELSE Ok([self EXCEPT
                !.client_ecdhe_public_key = Slice(data, 0, self.client_ecdhe_public_key_len),
                !.signature = Slice(data, self.client_ecdhe_public_key_len, Len(data))])

\* faulty variant: a length that does not fit a u16 is taken modulo 2^16,
\* in the header and in the format of the body
serialize_wrapping_lengths(self) ==
    Ok(<<self.version>> \o PackH(self.client_ecdhe_public_key_len % 65536)
                        \o PackH(self.signature_len % 65536)
                        \o PackS(self.client_ecdhe_public_key_len % 65536,
                                 self.client_ecdhe_public_key)
                        \o PackS(self.signature_len % 65536, self.signature))

ClientKeyExchangeMessage_serialize(self) ==
    IF ~(FitsB(self.version) /\ FitsH(self.client_ecdhe_public_key_len)
                             /\ FitsH(self.signature_len))
    THEN Err("struct.error")
    ELSE Ok(<<self.version>> \o PackH(self.client_ecdhe_public_key_len)
                             \o PackH(self.signature_len)
                             \o PackS(self.client_ecdhe_public_key_len,
                                      self.client_ecdhe_public_key)
                             \o PackS(self.signature_len, self.signature))

-----------------------------------------------------------------------------
(* xaptum/fsm/events.py and xaptum/xdaa/events.py *)

Start      == [kind |-> "START"]
Terminated == [kind |-> "TERMINATED"]
Entry      == [kind |-> "ENTRY"]
Exit       == [kind |-> "EXIT"]

DataWrite(data)      == [kind |-> "DATA_WRITE", data |-> data]
DataWriteResult      == [kind |-> "DATA_WRITE_RESULT"]
DataRead(size)       == [kind |-> "DATA_READ", size |-> size]
DataReadResult(data) == [kind |-> "DATA_READ_RESULT", data |-> data]

CreateNonce(size)        == [kind |-> "CREATE_NONCE", size |-> size]
CreateNonceResult(nonce) == [kind |-> "CREATE_NONCE_RESULT", nonce |-> nonce]

EphemeralCreateKey            == [kind |-> "EPHEMERAL_CREATE_KEY"]
EphemeralCreateKeyResult(key) == [kind |-> "EPHEMERAL_CREATE_KEY_RESULT", key |-> key]
EphemeralComputeSharedSecret(private_key, public_key) ==
    [kind |-> "EPHEMERAL_COMPUTE_SHARED_SECRET",
     private_key |-> private_key, public_key |-> public_key]
EphemeralComputeSharedSecretResult(secret) ==
    [kind |-> "EPHEMERAL_COMPUTE_SHARED_SECRET_RESULT", secret |-> secret]
EphemeralDecodePublicKey(encoded_public_key) ==
    [kind |-> "EPHEMERAL_DECODE_PUBLIC_KEY", encoded_public_key |-> encoded_public_key]
EphemeralDecodePublicKeyResult(public_key) ==
    [kind |-> "EPHEMERAL_DECODE_PUBLIC_KEY_RESULT", public_key |-> public_key]
EphemeralEncodePublicKey(key) == [kind |-> "EPHEMERAL_ENCODE_PUBLIC_KEY", key |-> key]
EphemeralEncodePublicKeyResult(public_key_encoded) ==
    [kind |-> "EPHEMERAL_ENCODE_PUBLIC_KEY_RESULT",
     public_key_encoded |-> public_key_encoded]

GroupDecodePublicKey(encoded_public_key) ==
    [kind |-> "GROUP_DECODE_PUBLIC_KEY", encoded_public_key |-> encoded_public_key]
GroupDecodePublicKeyResult(public_key) ==
    [kind |-> "GROUP_DECODE_PUBLIC_KEY_RESULT", public_key |-> public_key]
GroupDecodePrivateKey(encoded_private_key) ==
    [kind |-> "GROUP_DECODE_PRIVATE_KEY", encoded_private_key |-> encoded_private_key]
GroupDecodePrivateKeyResult(private_key) ==
    [kind |-> "GROUP_DECODE_PRIVATE_KEY_RESULT", private_key |-> private_key]
GroupSHA256SignData(private_key, data) ==
    [kind |-> "GROUP_SHA256_SIGN_DATA", private_key |-> private_key, data |-> data]
GroupSHA256SignDataResult(signature) ==
    [kind |-> "GROUP_SHA256_SIGN_DATA_RESULT", signature |-> signature]
GroupSHA256VerifySignature(public_key, data, signature) ==
    [kind |-> "GROUP_SHA256_VERIFY_SIGNATURE",
     public_key |-> public_key, data |-> data, signature |-> signature]
GroupSHA256VerifySignatureResult(verified) ==
    [kind |-> "GROUP_SHA256_VERIFY_SIGNATURE_RESULT", verified |-> verified]

-----------------------------------------------------------------------------
(* Outcome of a state function.  Every state function ends in `return X`   *)
(* or `raise E`, where X is an event, None, or one of the calls             *)
(* self.become(state), self.delegate(Child(context)), self.unhandled(event),*)
(* self.terminate(); the outcome names which (`then`), and the FSM methods  *)
(* below carry that call out.  `h` is the XDAAHandshake object after the   *)
(* assignments made so far; a child machine is h.maybeChild.               *)

Return(h, event)   == [h |-> h, then |-> "return",    ret |-> event, exc |-> "none", arg |-> ""]
Raise(h, e)        == [h |-> h, then |-> "raise",     ret |-> None,  exc |-> e,      arg |-> ""]
Become(h, state)   == [h |-> h, then |-> "become",    ret |-> None,  exc |-> "none", arg |-> state]
Delegate(h, cls)   == [h |-> h, then |-> "delegate",  ret |-> None,  exc |-> "none", arg |-> cls]
Unhandled(h)       == [h |-> h, then |-> "unhandled", ret |-> None,  exc |-> "none", arg |-> ""]
\* FSM.terminate: return self.become(self.final)
Terminate(h)       == Become(h, "final")

-----------------------------------------------------------------------------
(* xaptum/fsm/fsm.py: StepMixin *)

init_step(self, guard) ==
    IF guard THEN [self |-> [self EXCEPT !.step = 0], result |-> TRUE]
    ELSE [self |-> self, result |-> FALSE]

\* faulty variant: the step fires on the guard alone, whatever its number
step_ignoring_number(self, num, guard) ==
    IF guard
    THEN [self |-> [self EXCEPT !.step = @ + 1], result |-> TRUE]
    ELSE [self |-> self, result |-> FALSE]

step(self, num, guard) ==
    IF num = self.step + 1 /\ guard
    THEN [self |-> [self EXCEPT !.step = @ + 1], result |-> TRUE]
    ELSE [self |-> self, result |-> FALSE]

-----------------------------------------------------------------------------
(* xaptum/xdaa/handshake.py: the objects *)

DAAGroup(group_id, server_public_key, client_private_key) ==
    [group_id           |-> group_id,
     server_public_key  |-> server_public_key,
     client_private_key |-> client_private_key]

\* XDAAContext.__init__ and the three attributes the engine adds later
XDAAContext ==
    [protocol_version             |-> 0,
     daa_group                    |-> None,
     client_nonce                 |-> NoneBytes,
     client_daa_private_key       |-> None,
     client_ephemeral_private_key |-> None,
     server_nonce                 |-> NoneBytes,
     server_daa_public_key        |-> None,
     server_ephemeral_public_key  |-> None,
     server_group_public_key      |-> Unset,
     client_group_private_key     |-> Unset,
     shared_secret                |-> Unset]

\* FSM.__init__ of a child state machine (InitContext, SendClientHello,
\* ReceiveServerKeyExchange, SendClientKeyExchange) with its own attributes
ChildFSM(cls) ==
    [cls                |-> cls,
     current            |-> "initial",
     maybeChild         |-> None,
     maybeParent        |-> None,
     step               |-> -1,
     message            |-> Unset,
     public_key_encoded |-> Unset,
     signature          |-> Unset]

\* the on_start state each child class passes to FSM.__init__
on_start(cls) ==
    CASE cls = "InitContext"              -> "steps"
      [] cls = "SendClientHello"          -> "send"
      [] cls = "ReceiveServerKeyExchange" -> "receive_message"
      [] cls = "SendClientKeyExchange"    -> "prepare_message"

\* XDAAHandshake.__init__
XDAAHandshake(daa_group) ==
    [current     |-> "initial",
     maybeChild  |-> None,
     maybeParent |-> None,
     context     |-> [XDAAContext EXCEPT !.daa_group = daa_group]]

\* a reference to the XDAAHandshake object, as held in child.maybeParent
Parent == [type |-> "XDAAHandshake"]

WithChild(h, c) == [h EXCEPT !.maybeChild = c]

-----------------------------------------------------------------------------
(* xaptum/xdaa/handshake.py: the state functions of the child machines *)

\* faulty variant: the context is one object shared by all instances, so the
\* nonce another instance has stored is kept
steps_on_shared_context(h, event) ==
    LET c  == h.maybeChild
        s0 == init_step(c, event.kind = "ENTRY")
        s1 == step(c, 1, event.kind = "GROUP_DECODE_PUBLIC_KEY_RESULT")
        s2 == step(c, 2, event.kind = "GROUP_DECODE_PRIVATE_KEY_RESULT")
        s3 == step(c, 3, event.kind = "CREATE_NONCE_RESULT")
        s4 == step(c, 4, event.kind = "EPHEMERAL_CREATE_KEY_RESULT")
    IN  IF s0.result
        THEN Return(WithChild(h, s0.self),
                    GroupDecodePublicKey(h.context.daa_group.server_public_key))
        ELSE IF s1.result
        THEN Return([WithChild(h, s1.self) EXCEPT
                        !.context.server_group_public_key = event.public_key],
                    GroupDecodePrivateKey(h.context.daa_group.client_private_key))
        ELSE IF s2.result
        THEN Return([WithChild(h, s2.self) EXCEPT
                        !.context.client_group_private_key = event.private_key],
                    CreateNonce(NonceSize))
        ELSE IF s3.result
        THEN Return([WithChild(h, s3.self) EXCEPT
                        !.context.client_nonce =
                            IF other.handshake.context.client_nonce # NoneBytes
                            THEN other.handshake.context.client_nonce
                            ELSE event.nonce],
                    EphemeralCreateKey)
        ELSE IF s4.result
        THEN Terminate([WithChild(h, s4.self) EXCEPT
                           !.context.client_ephemeral_private_key = event.key])
        ELSE Unhandled(h)

InitContext_steps(h, event) ==
    LET c  == h.maybeChild
        s0 == init_step(c, event.kind = "ENTRY")
        s1 == step(c, 1, event.kind = "GROUP_DECODE_PUBLIC_KEY_RESULT")
        s2 == step(c, 2, event.kind = "GROUP_DECODE_PRIVATE_KEY_RESULT")
        s3 == step(c, 3, event.kind = "CREATE_NONCE_RESULT")
        s4 == step(c, 4, event.kind = "EPHEMERAL_CREATE_KEY_RESULT")
    IN  IF s0.result
        THEN Return(WithChild(h, s0.self),
                    GroupDecodePublicKey(h.context.daa_group.server_public_key))
        ELSE IF s1.result
        THEN Return([WithChild(h, s1.self) EXCEPT
                        !.context.server_group_public_key = event.public_key],
                    GroupDecodePrivateKey(h.context.daa_group.client_private_key))
        ELSE IF s2.result
        THEN Return([WithChild(h, s2.self) EXCEPT
                        !.context.client_group_private_key = event.private_key],
                    CreateNonce(NonceSize))
        ELSE IF s3.result
        THEN Return([WithChild(h, s3.self) EXCEPT
                        !.context.client_nonce = event.nonce],
                    EphemeralCreateKey)
        ELSE IF s4.result
        THEN Terminate([WithChild(h, s4.self) EXCEPT
                           !.context.client_ephemeral_private_key = event.key])
        ELSE Unhandled(h)

\* faulty variant: the ClientHello is built with its two fields exchanged
send_fields_exchanged(h, event) ==
    IF event.kind = "ENTRY"
    THEN IF h.context.client_nonce = NoneBytes
         THEN Raise(h, "TypeError")
         ELSE LET client_hello == ClientHelloMessage(h.context.client_nonce,
                                                     h.context.daa_group.group_id)
                  data == ClientHelloMessage_serialize(client_hello)
              IN  IF data.ok THEN Return(h, DataWrite(data.value))
                  ELSE Raise(h, data.error)
    ELSE IF event.kind = "DATA_WRITE_RESULT" THEN Terminate(h)
    ELSE Unhandled(h)

\* len(None) in ClientHelloMessage.__init__ is a TypeError
SendClientHello_send(h, event) ==
    IF event.kind = "ENTRY"
    THEN IF h.context.client_nonce = NoneBytes
         THEN Raise(h, "TypeError")
         ELSE LET client_hello == ClientHelloMessage(h.context.daa_group.group_id,
                                                     h.context.client_nonce)
                  data == ClientHelloMessage_serialize(client_hello)
              IN  IF data.ok THEN Return(h, DataWrite(data.value))
                  ELSE Raise(h, data.error)
    ELSE IF event.kind = "DATA_WRITE_RESULT" THEN Terminate(h)
    ELSE Unhandled(h)

\* step() counts before the parse: a header that fails to parse leaves the
\* counter at 1 and self.message unassigned
ReceiveServerKeyExchange_receive_message(h, event) ==
    LET c  == h.maybeChild
        s0 == init_step(c, event.kind = "ENTRY")
        s1 == step(c, 1, event.kind = "DATA_READ_RESULT")
        s2 == step(c, 2, event.kind = "DATA_READ_RESULT")
    IN  IF s0.result
        THEN Return(WithChild(h, s0.self), DataRead(ServerKeyExchangeMessage_header_len))
        ELSE IF s1.result
        THEN LET r == ServerKeyExchangeMessage_parse_header(event.data)
             IN  IF ~r.ok THEN Raise(WithChild(h, s1.self), r.error)
                 ELSE Return(WithChild(h, [s1.self EXCEPT !.message = r.value.message]),
                             DataRead(r.value.length))
        ELSE IF s2.result
        THEN IF s2.self.message = Unset
             THEN Raise(WithChild(h, s2.self), "AttributeError")
             ELSE LET r == ServerKeyExchangeMessage_parse_body(s2.self.message, event.data)
                  IN  IF ~r.ok THEN Raise(WithChild(h, s2.self), r.error)
                      ELSE Become(WithChild(h, [s2.self EXCEPT !.message = r.value]),
                                  "validate_message")
        ELSE Unhandled(h)

\* faulty variant: the group id of the message is not compared
validate_message_without_group_check(h, event) ==
    LET c   == h.maybeChild
        s0  == init_step(c, event.kind = "ENTRY")
        s1  == step(c, 1, event.kind = "GROUP_SHA256_VERIFY_SIGNATURE_RESULT")
        h0  == WithChild(h, s0.self)
        buf == ServerKeyExchangeMessage_serialize_for_signature(
                   c.message.server_ecdhe_public_key, h.context.client_nonce)
    IN  IF s0.result
        THEN IF c.message.version # h.context.protocol_version
             THEN Raise(h0, "UnsupportedVersionError")
             ELSE IF h.context.server_group_public_key = Unset
             THEN Raise(h0, "AttributeError")
             ELSE IF ~buf.ok
             THEN Raise(h0, buf.error)
             ELSE Return(h0, GroupSHA256VerifySignature(
                                 h.context.server_group_public_key,
                                 buf.value,
                                 c.message.signature))
        ELSE IF s1.result
        THEN IF event.verified = FALSE
             THEN Raise(WithChild(h, s1.self), "InvalidSignatureError")
             ELSE Become(WithChild(h, s1.self), "process_message")
        ELSE Unhandled(h)

\* faulty variant: only the length of the group id is compared
validate_message_group_length_only(h, event) ==
    LET c   == h.maybeChild
        s0  == init_step(c, event.kind = "ENTRY")
        s1  == step(c, 1, event.kind = "GROUP_SHA256_VERIFY_SIGNATURE_RESULT")
        h0  == WithChild(h, s0.self)
        buf == ServerKeyExchangeMessage_serialize_for_signature(
                   c.message.server_ecdhe_public_key, h.context.client_nonce)
    IN  IF s0.result
        THEN IF c.message.version # h.context.protocol_version
             THEN Raise(h0, "UnsupportedVersionError")
             ELSE IF Len(c.message.server_group_id) # Len(h.context.daa_group.group_id)
             THEN Raise(h0, "IncorrectGroupError")
             ELSE IF h.context.server_group_public_key = Unset
             THEN Raise(h0, "AttributeError")
             ELSE IF ~buf.ok
             THEN Raise(h0, buf.error)
             ELSE Return(h0, GroupSHA256VerifySignature(
                                 h.context.server_group_public_key,
                                 buf.value,
                                 c.message.signature))
        ELSE IF s1.result
        THEN IF event.verified = FALSE
             THEN Raise(WithChild(h, s1.self), "InvalidSignatureError")
             ELSE Become(WithChild(h, s1.self), "process_message")
        ELSE Unhandled(h)

\* faulty variant: the verification result is not looked at
validate_message_result_ignored(h, event) ==
    LET c   == h.maybeChild
        s0  == init_step(c, event.kind = "ENTRY")
        s1  == step(c, 1, event.kind = "GROUP_SHA256_VERIFY_SIGNATURE_RESULT")
        h0  == WithChild(h, s0.self)
        buf == ServerKeyExchangeMessage_serialize_for_signature(
                   c.message.server_ecdhe_public_key, h.context.client_nonce)
    IN  IF s0.result
        THEN IF c.message.version # h.context.protocol_version
             THEN Raise(h0, "UnsupportedVersionError")
             ELSE IF c.message.server_group_id # h.context.daa_group.group_id
             THEN Raise(h0, "IncorrectGroupError")
             ELSE IF h.context.server_group_public_key = Unset
             THEN Raise(h0, "AttributeError")
             ELSE IF ~buf.ok
             THEN Raise(h0, buf.error)
             ELSE Return(h0, GroupSHA256VerifySignature(
                                 h.context.server_group_public_key,
                                 buf.value,
                                 c.message.signature))
        ELSE IF s1.result
        THEN Become(WithChild(h, s1.self), "process_message")
        ELSE Unhandled(h)

ReceiveServerKeyExchange_validate_message(h, event) ==
    LET c   == h.maybeChild
        s0  == init_step(c, event.kind = "ENTRY")
        s1  == step(c, 1, event.kind = "GROUP_SHA256_VERIFY_SIGNATURE_RESULT")
        h0  == WithChild(h, s0.self)
        buf == ServerKeyExchangeMessage_serialize_for_signature(
                   c.message.server_ecdhe_public_key, h.context.client_nonce)
    IN  IF s0.result
        THEN IF c.message.version # h.context.protocol_version
             THEN Raise(h0, "UnsupportedVersionError")
             ELSE IF c.message.server_group_id # h.context.daa_group.group_id
             THEN Raise(h0, "IncorrectGroupError")
             ELSE IF h.context.server_group_public_key = Unset
             THEN Raise(h0, "AttributeError")
             ELSE IF ~buf.ok
             THEN Raise(h0, buf.error)
             ELSE Return(h0, GroupSHA256VerifySignature(
                                 h.context.server_group_public_key,
                                 buf.value,
                                 c.message.signature))
        ELSE IF s1.result
        THEN IF event.verified = FALSE
             THEN Raise(WithChild(h, s1.self), "InvalidSignatureError")
             ELSE Become(WithChild(h, s1.self), "process_message")
        ELSE Unhandled(h)

\* faulty variant: the server nonce of the message is not stored
process_message_nonce_not_stored(h, event) ==
    IF event.kind = "ENTRY"
    THEN Return(h, EphemeralDecodePublicKey(h.maybeChild.message.server_ecdhe_public_key))
    ELSE IF event.kind = "EPHEMERAL_DECODE_PUBLIC_KEY_RESULT"
    THEN Terminate([h EXCEPT !.context.server_ephemeral_public_key = event.public_key])
    ELSE Unhandled(h)

ReceiveServerKeyExchange_process_message(h, event) ==
    IF event.kind = "ENTRY"
    THEN Return([h EXCEPT !.context.server_nonce = h.maybeChild.message.server_nonce],
                EphemeralDecodePublicKey(h.maybeChild.message.server_ecdhe_public_key))
    ELSE IF event.kind = "EPHEMERAL_DECODE_PUBLIC_KEY_RESULT"
    THEN Terminate([h EXCEPT !.context.server_ephemeral_public_key = event.public_key])
    ELSE Unhandled(h)

SendClientKeyExchange_prepare_message(h, event) ==
    LET c  == h.maybeChild
        s0 == init_step(c, event.kind = "ENTRY")
        s1 == step(c, 1, event.kind = "EPHEMERAL_ENCODE_PUBLIC_KEY_RESULT")
        s2 == step(c, 2, event.kind = "GROUP_SHA256_SIGN_DATA_RESULT")
    IN  IF s0.result
        THEN Return(WithChild(h, s0.self),
                    EphemeralEncodePublicKey(h.context.client_ephemeral_private_key))
        ELSE IF s1.result
        THEN LET c1 == [s1.self EXCEPT !.public_key_encoded = event.public_key_encoded]
                 sig_buffer == ClientKeyExchangeMessage_serialize_for_signature(
                                   c1.public_key_encoded, h.context.server_nonce)
             IN  IF ~sig_buffer.ok THEN Raise(WithChild(h, c1), sig_buffer.error)
                 ELSE IF h.context.client_group_private_key = Unset
                 THEN Raise(WithChild(h, c1), "AttributeError")
                 ELSE Return(WithChild(h, c1),
                             GroupSHA256SignData(h.context.client_group_private_key,
                                                 sig_buffer.value))
        ELSE IF s2.result
        THEN LET c2 == [s2.self EXCEPT !.signature = event.signature]
             IN  IF c2.public_key_encoded = Unset
                 THEN Raise(WithChild(h, c2), "AttributeError")
                 ELSE Become(WithChild(h, [c2 EXCEPT !.message =
                                 ClientKeyExchangeMessage(c2.public_key_encoded,
                                                          c2.signature)]),
                             "send_message")
        ELSE Unhandled(h)

SendClientKeyExchange_send_message(h, event) ==
    LET data == ClientKeyExchangeMessage_serialize(h.maybeChild.message)
    IN  IF event.kind = "ENTRY"
        THEN IF data.ok THEN Return(h, DataWrite(data.value))
             ELSE Raise(h, data.error)
        ELSE IF event.kind = "DATA_WRITE_RESULT" THEN Terminate(h)
        ELSE Unhandled(h)

\* faulty variant: Exit is let through, as unhandled() does
final_passing_exit(h, event) ==
    IF event.kind = "ENTRY" THEN Return(h, Terminated)
    ELSE IF event.kind = "EXIT" THEN Return(h, None)
    ELSE Raise(h, "TerminatedError")

\* FSM.final: Terminated on Entry, TerminatedError on every other event
FSM_final(h, event) ==
    IF event.kind = "ENTRY" THEN Return(h, Terminated)
    ELSE Raise(h, "TerminatedError")

\* self.current(event) of the child
Child_current(h, event) ==
    LET state == h.maybeChild.current
    IN  CASE state = "steps"            -> InitContext_steps(h, event)
          [] state = "send"             -> SendClientHello_send(h, event)
          [] state = "receive_message"  -> ReceiveServerKeyExchange_receive_message(h, event)
          [] state = "validate_message" -> ReceiveServerKeyExchange_validate_message(h, event)
          [] state = "process_message"  -> ReceiveServerKeyExchange_process_message(h, event)
          [] state = "prepare_message"  -> SendClientKeyExchange_prepare_message(h, event)
          [] state = "send_message"     -> SendClientKeyExchange_send_message(h, event)
          [] state = "final"            -> FSM_final(h, event)

\* FSM.become of a child, which has no child of its own: _exit passes Exit to
\* the state being left, whose function ignores it (the guards of init_step
\* and step are false; unhandled passes on EXIT); _enter sets current and
\* returns current(Entry()), so a raise in the entry action leaves the new
\* state set
Child_become(h, state) ==
    Child_current(WithChild(h, [h.maybeChild EXCEPT !.current = state]), Entry)

-----------------------------------------------------------------------------
(* xaptum/xdaa/handshake.py: the state functions of XDAAHandshake *)

\* FSM.initial with on_start = init_context
FSM_initial(h, event) ==
    IF event.kind = "START" THEN Become(h, "init_context")
    ELSE Unhandled(h)

\* faulty variant: the state consults a counter of the receive() calls made on
\* all instances
init_context_counting_calls(h, event) ==
    IF event.kind = "ENTRY" THEN Delegate(h, "InitContext")
    ELSE IF event.kind = "TERMINATED"
    THEN IF calls % 2 = 0 THEN Become(h, "send_client_hello") ELSE Unhandled(h)
    ELSE Unhandled(h)

XDAAHandshake_init_context(h, event) ==
    IF event.kind = "ENTRY" THEN Delegate(h, "InitContext")
    ELSE IF event.kind = "TERMINATED" THEN Become(h, "send_client_hello")
    ELSE Unhandled(h)

XDAAHandshake_send_client_hello(h, event) ==
    IF event.kind = "ENTRY" THEN Delegate(h, "SendClientHello")
    ELSE IF event.kind = "TERMINATED" THEN Become(h, "receive_server_key_exchange")
    ELSE Unhandled(h)

\* no else branch: any other event returns None
XDAAHandshake_receive_server_key_exchange(h, event) ==
    IF event.kind = "ENTRY" THEN Delegate(h, "ReceiveServerKeyExchange")
    ELSE IF event.kind = "TERMINATED" THEN Become(h, "send_client_key_exchange")
    ELSE Return(h, None)

\* no else branch: any other event returns None
XDAAHandshake_send_client_key_exchange(h, event) ==
    IF event.kind = "ENTRY" THEN Delegate(h, "SendClientKeyExchange")
    ELSE IF event.kind = "TERMINATED" THEN Become(h, "compute_shared_secret")
    ELSE Return(h, None)

\* faulty variant: the secret of the result event is stored reversed
compute_shared_secret_reversing(h, event) ==
    IF event.kind = "ENTRY"
    THEN Return(h, EphemeralComputeSharedSecret(
                       h.context.client_ephemeral_private_key,
                       h.context.server_ephemeral_public_key))
    ELSE IF event.kind = "EPHEMERAL_COMPUTE_SHARED_SECRET_RESULT"
    THEN Terminate([h EXCEPT !.context.shared_secret = Reverse(event.secret)])
    ELSE Unhandled(h)

\* the secret of the result event is stored as it is
XDAAHandshake_compute_shared_secret(h, event) ==
    IF event.kind = "ENTRY"
    THEN Return(h, EphemeralComputeSharedSecret(
                       h.context.client_ephemeral_private_key,
                       h.context.server_ephemeral_public_key))
    ELSE IF event.kind = "EPHEMERAL_COMPUTE_SHARED_SECRET_RESULT"
    THEN Terminate([h EXCEPT !.context.shared_secret = event.secret])
    ELSE Unhandled(h)

\* self.current(event) of the XDAAHandshake
XDAAHandshake_current(h, event) ==
    CASE h.current = "initial" -> FSM_initial(h, event)
      [] h.current = "init_context" -> XDAAHandshake_init_context(h, event)
      [] h.current = "send_client_hello" -> XDAAHandshake_send_client_hello(h, event)
      [] h.current = "receive_server_key_exchange" ->
             XDAAHandshake_receive_server_key_exchange(h, event)
      [] h.current = "send_client_key_exchange" ->
             XDAAHandshake_send_client_key_exchange(h, event)
      [] h.current = "compute_shared_secret" ->
             XDAAHandshake_compute_shared_secret(h, event)
      [] h.current = "final" -> FSM_final(h, event)

-----------------------------------------------------------------------------
(* xaptum/fsm/fsm.py: the FSM methods, for the XDAAHandshake and its child *)

\* FSM._abort_child: child._abort() leaves the child in final with no parent
\* (the entry action of final is not run, and _abort never calls the
\* _abort_child it names), then the link to it is dropped
FSM_abort_child(h) == [h EXCEPT !.maybeChild = None]

\* FSM.become of the parent: abort an active child; _exit passes Exit to
\* the current state (final raises on it, every other state ignores it);
\* _enter sets current and returns current(Entry())
FSM_become(h, state) ==
    LET h1 == IF h.maybeChild # None THEN FSM_abort_child(h) ELSE h
    IN  IF h1.current = "final" THEN Raise(h1, "TerminatedError")
        ELSE XDAAHandshake_current([h1 EXCEPT !.current = state], Entry)

\* FSM.delegate: delegate_with(child, Start()).  With a child already active
\* it calls self._abortChild(), which no class defines.  Otherwise the child
\* is installed and receives Start: its initial() becomes its on_start state.
FSM_delegate(h, cls) ==
    IF h.maybeChild # None THEN Raise(h, "AttributeError")
    ELSE Child_become(WithChild(h, [ChildFSM(cls) EXCEPT !.maybeParent = Parent]),
                      on_start(cls))

\* FSM.unhandled of the XDAAHandshake, which has no parent
FSM_unhandled(h, event) ==
    IF event.kind \in {"ENTRY", "EXIT"} THEN Return(h, None)
    ELSE Raise(h, "UnsupportedEventError")

\* the self.become(state) a state function of the XDAAHandshake ended in
FSM_then_become(r) ==
    IF r.then = "become" THEN FSM_become(r.h, r.arg) ELSE r

\* the self.delegate(Child(context)) an entry action ended in
FSM_then_delegate(r) ==
    IF r.then = "delegate" THEN FSM_delegate(r.h, r.arg) ELSE r

\* the self.unhandled(event) a state function of the XDAAHandshake ended in
FSM_then_unhandled(r, event) ==
    IF r.then = "unhandled" THEN FSM_unhandled(r.h, event) ELSE r

\* FSM._receive_self of the XDAAHandshake: self.current(event), with the
\* become, delegate or unhandled call the state function ends in carried out
FSM_receive_self(h, event) ==
    FSM_then_unhandled(
        FSM_then_delegate(FSM_then_become(XDAAHandshake_current(h, event))),
        event)

\* the self.become(state) a state function of the child ended in
Child_then_become(r) ==
    IF r.then = "become" THEN Child_become(r.h, r.arg) ELSE r

\* child.receive(event): the child has no child, so its _receive_self;
\* `then` stays "unhandled" where the state function ended in
\* self.unhandled(event)
Child_receive(h, event) ==
    Child_then_become(Child_current(h, event))

\* the `ret.kind` of _receive_child: None has no attribute kind
FSM_ret_kind(r) ==
    IF r.exc = "none" /\ r.ret = None THEN Raise(r.h, "AttributeError") ELSE r

\* FSM.unhandled of the child, ret being what its state function left: Entry
\* and Exit pass (None comes back), any other event goes to the
\* _receive_self of the parent.  What the parent answers is an event of
\* another kind than TERMINATED, None or a raise (the parent enters final
\* only from compute_shared_secret, which has no child).
Child_unhandled(ret, event) ==
    IF event.kind \in {"ENTRY", "EXIT"} THEN Return(ret.h, None)
    ELSE FSM_receive_self(ret.h, event)

\* faulty variant: the Terminated of the child goes back to the caller, the
\* parent is not told and keeps the link
receive_child_returning_terminated(ret, event) ==
    IF ret.then = "unhandled"
    THEN FSM_ret_kind(Child_unhandled(ret, event))
    ELSE ret

\* FSM._receive_child, ret being what child.receive(event) left
FSM_receive_child(ret, event) ==
    IF ret.then = "unhandled"
    THEN FSM_ret_kind(Child_unhandled(ret, event))
    ELSE IF ret.then = "return" /\ ret.ret = Terminated
    THEN FSM_receive_self([ret.h EXCEPT !.maybeChild = None], ret.ret)
    ELSE ret

\* FSM.receive of the XDAAHandshake
FSM_receive(h, event) ==
    IF h.maybeChild # None
    THEN FSM_receive_child(Child_receive(h, event), event)
    ELSE FSM_receive_self(h, event)

-----------------------------------------------------------------------------
(* xaptum/crypto: the primitives, as ideal operations on symbolic keys.    *)
(* A hex string is the sequence of its ASCII codes.                        *)

HexVal(c) == IF c >= 48 /\ c <= 57 THEN c - 48
             ELSE IF c >= 65 /\ c <= 70 THEN c - 55
             ELSE c - 87

\* codecs.decode(s, 'hex_codec') of an even-length hex string
HexDecode(s) == [i \in 1..(Len(s) \div 2) |-> 16 * HexVal(s[2 * i - 1]) + HexVal(s[2 * i])]

RECURSIVE IntOfBytes(_)
IntOfBytes(b) == IF Len(b) = 0 THEN 0
                 ELSE 256 * IntOfBytes(SubSeq(b, 1, Len(b) - 1)) + b[Len(b)]

secp256r1_public_key_from_encoded_point_hex(point) ==
    [type |-> "secp256r1.public_key", point |-> HexDecode(point)]

\* int(value, 16)
secp256r1_private_key_from_int_hex(value) ==
    [type |-> "secp256r1.private_key", value |-> IntOfBytes(HexDecode(value))]

\* the signature of an ideal scheme: it names the signing key and the message
secp256r1_sign_sha256(self, message) == <<48, self.value>> \o message

\* the public point <<4, v>> belongs to the private value v
secp256r1_verify_sha256(self, signature, message) ==
    signature = <<48>> \o Tail(self.point) \o message

x25519_public_key_from_bytes_le(bytes_le) ==
    [type |-> "x25519.public_key", public |-> bytes_le]

\* faulty variant: the big-endian bytes are taken for little-endian ones
public_key_from_bytes_be_unreversed(bytes_be) ==
    x25519_public_key_from_bytes_le(bytes_be)

\* bytes_be[::-1]
x25519_public_key_from_bytes_be(bytes_be) ==
    x25519_public_key_from_bytes_le(Reverse(bytes_be))

x25519_to_bytes_le(self) == self.public

x25519_to_bytes_be(self) == Reverse(x25519_to_bytes_le(self))

\* x25519.key_pair() with the private scalar drawn
x25519_key_pair(private) == [type |-> "x25519.key_pair", private |-> private]

\* key_pair.public: the little-endian encoding of base * private
x25519_public(self) ==
    x25519_public_key_from_bytes_le(
        [i \in 1..KeyLen |-> IF i = 1 THEN 3 * self.private ELSE 100 + i])

\* key_pair.compute_shared: private * peer point, little-endian
x25519_compute_shared(self, peer_public) ==
    [i \in 1..KeyLen |-> IF i = 1 THEN (self.private * peer_public.public[1]) % 256
                         ELSE 200 + i]

-----------------------------------------------------------------------------
(* xaptum/xdaa/sync/crypto.py: SyncCrypto; `rnd` is what os.urandom and    *)
(* the key generator draw                                                  *)

\* os.urandom(size): a string of that size; the seed drawn sets its last byte
Urandom(size, seed) == [i \in 1..size |-> IF i = size THEN seed ELSE 1]

SyncCrypto_kinds ==
    {"CREATE_NONCE", "EPHEMERAL_CREATE_KEY", "EPHEMERAL_COMPUTE_SHARED_SECRET",
     "EPHEMERAL_DECODE_PUBLIC_KEY", "EPHEMERAL_ENCODE_PUBLIC_KEY",
     "GROUP_DECODE_PUBLIC_KEY", "GROUP_DECODE_PRIVATE_KEY",
     "GROUP_SHA256_SIGN_DATA", "GROUP_SHA256_VERIFY_SIGNATURE"}

SyncCrypto_ephemeral_compute_shared_secret(event) ==
    EphemeralComputeSharedSecretResult(
        Reverse(x25519_compute_shared(event.private_key, event.public_key)))

SyncCrypto_dispatch(event, rnd) ==
    CASE event.kind = "CREATE_NONCE" ->
             CreateNonceResult(Urandom(event.size, rnd.seed))
      [] event.kind = "EPHEMERAL_CREATE_KEY" ->
             EphemeralCreateKeyResult(x25519_key_pair(rnd.private))
      [] event.kind = "EPHEMERAL_COMPUTE_SHARED_SECRET" ->
             SyncCrypto_ephemeral_compute_shared_secret(event)
      [] event.kind = "EPHEMERAL_DECODE_PUBLIC_KEY" ->
             EphemeralDecodePublicKeyResult(
                 x25519_public_key_from_bytes_be(event.encoded_public_key))
      [] event.kind = "EPHEMERAL_ENCODE_PUBLIC_KEY" ->
             EphemeralEncodePublicKeyResult(x25519_to_bytes_be(x25519_public(event.key)))
      [] event.kind = "GROUP_DECODE_PUBLIC_KEY" ->
             GroupDecodePublicKeyResult(
                 secp256r1_public_key_from_encoded_point_hex(event.encoded_public_key))
      [] event.kind = "GROUP_DECODE_PRIVATE_KEY" ->
             GroupDecodePrivateKeyResult(
                 secp256r1_private_key_from_int_hex(event.encoded_private_key))
      [] event.kind = "GROUP_SHA256_SIGN_DATA" ->
             GroupSHA256SignDataResult(secp256r1_sign_sha256(event.private_key, event.data))
      [] event.kind = "GROUP_SHA256_VERIFY_SIGNATURE" ->
             GroupSHA256VerifySignatureResult(
                 secp256r1_verify_sha256(event.public_key, event.signature, event.data))

-----------------------------------------------------------------------------
(* test/xaptum/xdaa/test_handshake.py: the bundle, the MockServer and the  *)
(* negotiate_secret loop of the tests                                      *)

\* daa_keys = daa.Keys.from_csv(...), with short keys in place of the 256-bit
\* ones: group id "12", the public point "0407" of the private value "07"
daa_keys == DAAGroup(<<49, 50>>, <<48, 52, 48, 55>>, <<48, 55>>)

\* a Server(MockServer) after __init__: the overrides of a test (version,
\* group id, the nonce signed instead of the client's; NoneBytes: no
\* override) and what get_server_nonce and get_server_ephemeral draw
MockServer(version, group_id, bad_client_nonce, seed, private) ==
    [current          |-> "client_hello",
     version          |-> version,
     group_id         |-> group_id,
     bad_client_nonce |-> bad_client_nonce,
     server_nonce     |-> Urandom(NonceSize, seed),
     server_ephemeral |-> x25519_key_pair(private),
     client_nonce     |-> NoneBytes,
     client_ephemeral |-> None,
     ske              |-> <<>>,
     secret           |-> Unset]

MockServer_sign_server_key_exchange(self) ==
    secp256r1_sign_sha256(
        secp256r1_private_key_from_int_hex(daa_keys.client_private_key),
        ServerKeyExchangeMessage_serialize_for_signature(
            x25519_to_bytes_be(x25519_public(self.server_ephemeral)),
            IF self.bad_client_nonce = NoneBytes THEN self.client_nonce
            ELSE self.bad_client_nonce).value)

MockServer_make_server_key_exchange(self) ==
    [ServerKeyExchangeMessage(self.group_id,
                              self.server_nonce,
                              x25519_to_bytes_be(x25519_public(self.server_ephemeral)),
                              MockServer_sign_server_key_exchange(self))
        EXCEPT !.version = self.version]

SrvReturn(self, event) == [server |-> self, ret |-> event, exc |-> "none"]
SrvRaise(self, e)      == [server |-> self, ret |-> None, exc |-> e]

\* decode_message(ClientHelloMessage, data), validate_client_hello, then
\* become(server_key_exchange), whose entry builds and serializes the message
MockServer_client_hello(self, event) ==
    IF event.kind # "DATA_WRITE" THEN SrvRaise(self, "UnsupportedEventError")
    ELSE LET hd == ClientHelloMessage_parse_header(
                       Slice(event.data, 0, ClientHelloMessage_header_len))
         IN  IF ~hd.ok THEN SrvRaise(self, hd.error)
             ELSE LET bd == ClientHelloMessage_parse_body(hd.value.message,
                                Slice(event.data, ClientHelloMessage_header_len,
                                      ClientHelloMessage_header_len + hd.value.length))
                  IN  IF ~bd.ok THEN SrvRaise(self, bd.error)
                      ELSE IF ClientHelloMessage_header_len + hd.value.length
                              # Len(event.data)
                              \/ bd.value.client_group_id # daa_keys.group_id
                              \/ Len(bd.value.client_nonce) # 32
                      THEN SrvRaise(self, "AssertionError")
                      ELSE LET s1 == [self EXCEPT
                                         !.client_nonce = bd.value.client_nonce,
                                         !.current = "server_key_exchange"]
                               ske == ServerKeyExchangeMessage_serialize(
                                          MockServer_make_server_key_exchange(s1))
                           IN  IF ~ske.ok THEN SrvRaise(s1, ske.error)
                               ELSE SrvReturn([s1 EXCEPT !.ske = ske.value],
                                              DataWriteResult)

MockServer_server_key_exchange(self, event) ==
    IF event.kind # "DATA_READ" THEN SrvRaise(self, "UnsupportedEventError")
    ELSE IF ~(0 < event.size /\ event.size <= Len(self.ske))
    THEN SrvRaise(self, "AssertionError")
    ELSE LET rest == Slice(self.ske, event.size, Len(self.ske))
         IN  SrvReturn([self EXCEPT
                           !.ske = rest,
                           !.current = IF Len(rest) = 0 THEN "client_key_exchange"
                                       ELSE @],
                       DataReadResult(Slice(self.ske, 0, event.size)))

\* decode_message(ClientKeyExchangeMessage, data), validate_client_key_exchange
\* (which calls ClientKeyExchangeMessage.serialize_for_signature), the secret
MockServer_client_key_exchange(self, event) ==
    IF event.kind # "DATA_WRITE" THEN SrvRaise(self, "UnsupportedEventError")
    ELSE LET hd == ClientKeyExchangeMessage_parse_header(
                       Slice(event.data, 0, ClientKeyExchangeMessage_header_len))
         IN  IF ~hd.ok THEN SrvRaise(self, hd.error)
             ELSE LET bd == ClientKeyExchangeMessage_parse_body(hd.value.message,
                                Slice(event.data, ClientKeyExchangeMessage_header_len,
                                      ClientKeyExchangeMessage_header_len + hd.value.length))
                  IN  IF ~bd.ok THEN SrvRaise(self, bd.error)
                      ELSE IF ClientKeyExchangeMessage_header_len + hd.value.length
                              # Len(event.data)
                      THEN SrvRaise(self, "AssertionError")
                      ELSE LET s1 == [self EXCEPT !.client_ephemeral =
                                         x25519_public_key_from_bytes_be(
                                             bd.value.client_ecdhe_public_key)]
                               buf == ClientKeyExchangeMessage_serialize_for_signature(
                                          bd.value.client_ecdhe_public_key,
                                          s1.server_nonce)
                           IN  IF ~buf.ok THEN SrvRaise(s1, buf.error)
                               ELSE IF ~secp256r1_verify_sha256(
                                           secp256r1_public_key_from_encoded_point_hex(
                                               daa_keys.server_public_key),
                                           bd.value.signature, buf.value)
                               THEN SrvRaise(s1, "AssertionError")
                               ELSE SrvReturn(
                                        [s1 EXCEPT
                                            !.secret = Reverse(x25519_compute_shared(
                                                s1.server_ephemeral, s1.client_ephemeral)),
                                            !.current = "final"],
                                        DataWriteResult)

\* server.receive(event)
MockServer_receive(self, event) ==
    CASE self.current = "client_hello"        -> MockServer_client_hello(self, event)
      [] self.current = "server_key_exchange" -> MockServer_server_key_exchange(self, event)
      [] self.current = "client_key_exchange" -> MockServer_client_key_exchange(self, event)
      [] self.current = "final"               -> SrvRaise(self, "TerminatedError")

-----------------------------------------------------------------------------
(* What a server can send, and what a driver can feed *)

\* the server group ids tried: the provisioned one, one differing in its
\* last byte, a shorter one, a longer one, the empty one
GroupIds ==
    {daa_keys.group_id, <<49, 51>>, <<49>>, <<49, 50, 51>>, <<>>}

\* the versions a server sends
Versions == {0, 1, 255}

\* the nonces a tampering server signs instead of the client's
BadNonces == {Urandom(NonceSize, 1), Urandom(NonceSize, 2), Urandom(NonceSize, 3)}

\* the private scalars of the ephemeral keys drawn
Scalars == {5, 6}

\* the serialized ServerKeyExchange of a server that has read client_nonce
WireOf(version, group_id, client_nonce) ==
    ServerKeyExchangeMessage_serialize(
        MockServer_make_server_key_exchange(
            [MockServer(version, group_id, NoneBytes, 1, 5)
                EXCEPT !.client_nonce = client_nonce])).value

Wires ==
    {WireOf(v, g, Urandom(NonceSize, 1)) : v \in Versions, g \in GroupIds}

\* the wire of an honest server
GoodWire == WireOf(0, daa_keys.group_id, Urandom(NonceSize, 1))

\* the data of a DataReadResult: the header or the body of such a message, a
\* header one byte short, a header of four zero lengths, a header declaring a
\* nonce of 32 and a signature of 36 bytes only, a body one byte short, one
\* byte long, no byte at all
ReadChoices ==
    {Slice(w, 0, 9) : w \in Wires} \cup {Slice(w, 9, Len(w)) : w \in Wires}
    \cup {Slice(GoodWire, 0, 8),
          Slice(GoodWire, 9, Len(GoodWire) - 1),
          Slice(GoodWire, 9, Len(GoodWire)) \o <<0>>,
          <<0, 0, 0, 0, 0, 0, 0, 0, 0>>, <<0, 0, 0, 0, 32, 0, 0, 0, 36>>, <<>>}

\* the result events of xaptum/xdaa/events.py with the payloads tried
ResultEvents ==
    {DataWriteResult}
    \cup {DataReadResult(d) : d \in ReadChoices}
    \cup {CreateNonceResult(Urandom(NonceSize, seed)) : seed \in {1, 2}}
    \cup {EphemeralCreateKeyResult(x25519_key_pair(a)) : a \in Scalars}
    \cup {EphemeralComputeSharedSecretResult(
              x25519_compute_shared(x25519_key_pair(a), x25519_public(x25519_key_pair(5))))
          : a \in Scalars}
    \cup {EphemeralDecodePublicKeyResult(x25519_public(x25519_key_pair(5)))}
    \cup {EphemeralEncodePublicKeyResult(
              x25519_to_bytes_be(x25519_public(x25519_key_pair(a)))) : a \in Scalars}
    \cup {GroupDecodePublicKeyResult(
              secp256r1_public_key_from_encoded_point_hex(daa_keys.server_public_key))}
    \cup {GroupDecodePrivateKeyResult(
              secp256r1_private_key_from_int_hex(daa_keys.client_private_key))}
    \cup {GroupSHA256SignDataResult(<<48, 7, 1>>)}
    \cup {GroupSHA256VerifySignatureResult(b) : b \in BOOLEAN}

\* the events of xaptum/fsm/events.py
FrameworkEvents == {Start, Terminated, Entry, Exit}

\* one event of every kind
AnyEvents ==
    FrameworkEvents
    \cup {DataWriteResult,
          DataReadResult(Slice(GoodWire, 0, 9)),
          CreateNonceResult(Urandom(NonceSize, 1)),
          EphemeralCreateKeyResult(x25519_key_pair(6)),
          EphemeralComputeSharedSecretResult(
              x25519_compute_shared(x25519_key_pair(6), x25519_public(x25519_key_pair(5)))),
          EphemeralDecodePublicKeyResult(x25519_public(x25519_key_pair(5))),
          EphemeralEncodePublicKeyResult(
              x25519_to_bytes_be(x25519_public(x25519_key_pair(6)))),
          GroupDecodePublicKeyResult(
              secp256r1_public_key_from_encoded_point_hex(daa_keys.server_public_key)),
          GroupDecodePrivateKeyResult(
              secp256r1_private_key_from_int_hex(daa_keys.client_private_key)),
          GroupSHA256SignDataResult(<<48, 7, 1>>),
          GroupSHA256VerifySignatureResult(TRUE),
          GroupSHA256VerifySignatureResult(FALSE)}

-----------------------------------------------------------------------------
(* The state machine *)

NoCall == [fed |-> "", ret |-> None, exc |-> "none"]

IdleServer == MockServer(0, daa_keys.group_id, NoneBytes, 1, 5)
IdleLoop   == [pc |-> "idle", event |-> None, rnd |-> [seed |-> 1, private |-> 6],
               error |-> "none"]
\* no message under test, no socket in use
IdleCodec  == [pc |-> "idle"]
IdleSock   == [pc |-> "idle"]
\* no bundle string, no X25519 key under test, no second engine
IdleKeys      == [pc |-> "idle"]
IdlePublicKey == [pc |-> "idle"]
IdleOther     == [pc |-> "idle"]
\* no FSM objects of the harness under test
IdleTree      == [pc |-> "idle"]
IdleRest      == keys = IdleKeys /\ pubkey = IdlePublicKey /\ other = IdleOther /\ tree = IdleTree

\* a driver that holds a fresh XDAAHandshake(daa_keys) and calls receive()
InitFree ==
    /\ handshake = XDAAHandshake(daa_keys)
    /\ returned = NoCall
    /\ log = <<>>
    /\ calls = 0
    /\ server = IdleServer
    /\ loop = IdleLoop
    /\ codec = IdleCodec
    /\ sock = IdleSock
    /\ IdleRest

\* the test of test_handshake.py: a Server with its overrides, a fresh
\* handshake with SyncCrypto mixed in, negotiate_secret about to call start()
InitLoop ==
    /\ handshake = XDAAHandshake(daa_keys)
    /\ returned = NoCall
    /\ log = <<>>
    /\ calls = 0
    /\ \E v \in Versions, g \in GroupIds, bad \in BadNonces \cup {NoneBytes},
          seed \in {1, 2}, a \in Scalars :
          /\ server = MockServer(v, g, bad, 1, 5)
          /\ loop = [pc |-> "run", event |-> Start,
                     rnd |-> [seed |-> seed, private |-> a], error |-> "none"]
    /\ codec = IdleCodec
    /\ sock = IdleSock
    /\ IdleRest

\* the bookkeeping of a call handshake.receive(event) with outcome r; the
\* log keeps the calls that changed the engine or did not return None
Record(event, r) ==
    /\ handshake' = r.h
    /\ returned' = [fed |-> event.kind, ret |-> r.ret, exc |-> r.exc]
    /\ log' = IF r.h # handshake \/ r.ret # None
              THEN Append(log, [fed |-> event, ret |-> r.ret, exc |-> r.exc])
              ELSE log

\* handshake.receive(event)
Call(event) == Record(event, FSM_receive(handshake, event))

\* handshake.start()
StartCall ==
    /\ Call(Start)
    /\ UNCHANGED <<calls, server, loop, codec, sock, keys, pubkey, other, tree>>

\* handshake.receive(result) for any result event, asked for or not
FeedResult ==
    /\ \E event \in ResultEvents : Call(event)
    /\ UNCHANGED <<calls, server, loop, codec, sock, keys, pubkey, other, tree>>

\* handshake.receive(event) for an event of any kind
FeedAny ==
    /\ calls < MaxCalls
    /\ \E event \in AnyEvents : Call(event)
    /\ calls' = calls + 1
    /\ UNCHANGED <<server, loop, codec, sock, keys, pubkey, other, tree>>

\* one turn of the loops of negotiate_secret and SyncCrypto.receive: the event
\* in hand goes to the engine; a crypto request is answered by SyncCrypto, a
\* DataWrite or DataRead by server.receive, Terminated ends the loop, an
\* exception of the engine or of the server leaves it
LoopStep ==
    /\ loop.pc = "run"
    /\ Call(loop.event)
    /\ UNCHANGED <<calls, codec, sock, keys, pubkey, other, tree>>
    /\ IF returned'.exc # "none"
       THEN /\ loop' = [loop EXCEPT !.pc = "raised", !.error = returned'.exc]
            /\ UNCHANGED server
       ELSE IF returned'.ret = None
       THEN /\ loop' = [loop EXCEPT !.pc = "raised", !.error = "AttributeError"]
            /\ UNCHANGED server
       ELSE IF returned'.ret.kind \in SyncCrypto_kinds
       THEN /\ loop' = [loop EXCEPT !.event = SyncCrypto_dispatch(returned'.ret, loop.rnd)]
            /\ UNCHANGED server
       ELSE IF returned'.ret.kind = "TERMINATED"
       THEN /\ loop' = [loop EXCEPT !.pc = "returned"]
            /\ UNCHANGED server
       ELSE LET sr == MockServer_receive(server, returned'.ret)
            IN  /\ server' = sr.server
                /\ loop' = IF sr.exc # "none"
                           THEN [loop EXCEPT !.pc = "raised", !.error = sr.exc]
                           ELSE [loop EXCEPT !.event = sr.ret]

Next == StartCall \/ FeedResult

NextAnyEvent == FeedAny

NextLoop == LoopStep

\* the engine under a driver that feeds result events in any order
Spec == InitFree /\ [][Next]_vars

\* the engine under a driver that feeds events of any kind
SpecAnyEvent == InitFree /\ [][NextAnyEvent]_vars

\* the engine under the driver loop of the tests, against the MockServer
SpecLoop == InitLoop /\ [][NextLoop]_vars

-----------------------------------------------------------------------------
(* test/xaptum/xdaa/test_message.py: messages built from drawn fields,     *)
(* serialized, and decoded header first, body second                       *)

\* the longest field drawn
MaxLen == 2

\* the byte values drawn for the fields
Bytes == {0, 255}

\* the byte strings drawn by binary(min_size = 0)
ByteStrings == UNION {[1..n -> Bytes] : n \in 0..MaxLen}

\* a byte string one byte longer than a u16 length can declare
Oversize == [i \in 1..65536 |-> 0]

\* pk = b'abcdef' and n = b'12345' of the serialize_for_signature tests
pk_abcdef == <<97, 98, 99, 100, 101, 102>>
n_12345 == <<49, 50, 51, 52, 53>>

Classes == {"ClientHelloMessage", "ServerKeyExchangeMessage", "ClientKeyExchangeMessage"}

\* the messages the tests construct, one per choice of the fields
Constructed(cls) ==
    CASE cls = "ClientHelloMessage" ->
             {ClientHelloMessage(a, b) : a \in ByteStrings, b \in ByteStrings}
             \cup {ClientHelloMessage(Oversize, <<255>>)}
      [] cls = "ServerKeyExchangeMessage" ->
             {ServerKeyExchangeMessage(a, b, c, d) :
                  a \in ByteStrings, b \in {<<>>, <<255>>},
                  c \in {<<>>, <<0, 255>>}, d \in ByteStrings}
             \cup {ServerKeyExchangeMessage(<<>>, <<255>>, <<>>, Oversize)}
      [] cls = "ClientKeyExchangeMessage" ->
             {ClientKeyExchangeMessage(a, b) : a \in ByteStrings, b \in ByteStrings}
             \cup {ClientKeyExchangeMessage(<<255>>, Oversize)}

\* the lengths of the fields a message was constructed with
FieldLens(cls, m) ==
    CASE cls = "ClientHelloMessage" ->
             {Len(m.client_group_id), Len(m.client_nonce)}
      [] cls = "ServerKeyExchangeMessage" ->
             {Len(m.server_group_id), Len(m.server_nonce),
              Len(m.server_ecdhe_public_key), Len(m.signature)}
      [] cls = "ClientKeyExchangeMessage" ->
             {Len(m.client_ecdhe_public_key), Len(m.signature)}

\* message_cls.header_len
Message_header_len(cls) ==
    CASE cls = "ClientHelloMessage"       -> ClientHelloMessage_header_len
      [] cls = "ServerKeyExchangeMessage" -> ServerKeyExchangeMessage_header_len
      [] cls = "ClientKeyExchangeMessage" -> ClientKeyExchangeMessage_header_len

\* m.serialize()
Message_serialize(cls, self) ==
    CASE cls = "ClientHelloMessage"       -> ClientHelloMessage_serialize(self)
      [] cls = "ServerKeyExchangeMessage" -> ServerKeyExchangeMessage_serialize(self)
      [] cls = "ClientKeyExchangeMessage" -> ClientKeyExchangeMessage_serialize(self)

\* message_cls.parse_header(header)
Message_parse_header(cls, header) ==
    CASE cls = "ClientHelloMessage"       -> ClientHelloMessage_parse_header(header)
      [] cls = "ServerKeyExchangeMessage" -> ServerKeyExchangeMessage_parse_header(header)
      [] cls = "ClientKeyExchangeMessage" -> ClientKeyExchangeMessage_parse_header(header)

\* m.parse_body(data)
Message_parse_body(cls, self, data) ==
    CASE cls = "ClientHelloMessage"       -> ClientHelloMessage_parse_body(self, data)
      [] cls = "ServerKeyExchangeMessage" -> ServerKeyExchangeMessage_parse_body(self, data)
      [] cls = "ClientKeyExchangeMessage" -> ClientKeyExchangeMessage_parse_body(self, data)

\* message_cls.serialize_for_signature(a, b) of the two KeyExchange classes
Message_serialize_for_signature(cls, a, b) ==
    CASE cls = "ServerKeyExchangeMessage" ->
             ServerKeyExchangeMessage_serialize_for_signature(a, b)
      [] cls = "ClientKeyExchangeMessage" ->
             ClientKeyExchangeMessage_serialize_for_signature(a, b)

\* message_data[:header_len] of decode_message
HeaderOf(cls, data) == Slice(data, 0, Message_header_len(cls))

\* message_data[header_len:header_len + length] of decode_message
BodyOf(cls, data, length) ==
    Slice(data, Message_header_len(cls), Message_header_len(cls) + length)

\* the headers handed to parse_header: the one of the serialized message, the
\* same with another version byte, every shorter prefix, one byte more, and
\* a header of bytes 255 only
HeaderChoices(cls, data) ==
    {HeaderOf(cls, data)}
    \cup {<<v>> \o Tail(HeaderOf(cls, data)) : v \in {1, 255}}
    \cup {Slice(data, 0, k) : k \in 0..(Message_header_len(cls) - 1)}
    \cup {HeaderOf(cls, data) \o <<0>>}
    \cup {[i \in 1..Message_header_len(cls) |-> 255]}

\* the bodies handed to parse_body: the declared bytes, one byte less, one
\* byte more
BodyChoices(cls, data, length) ==
    {BodyOf(cls, data, length), BodyOf(cls, data, length) \o <<0>>}
    \cup (IF length > 0 THEN {BodyOf(cls, data, length - 1)} ELSE {})

\* a test about to run: a message constructed, or two arguments for
\* serialize_for_signature
NewCodec(test, cls, m, a, b) ==
    [test |-> test, cls |-> cls, m |-> m, a |-> a, b |-> b,
     pc |-> "constructed", op |-> "", data |-> <<>>, header |-> <<>>,
     body |-> <<>>, message |-> None, length |-> 0, error |-> "none"]

InitCodec ==
    /\ handshake = XDAAHandshake(daa_keys)
    /\ returned = NoCall
    /\ log = <<>>
    /\ calls = 0
    /\ server = IdleServer
    /\ loop = IdleLoop
    /\ sock = IdleSock
    /\ \/ \E cls \in Classes : \E m \in Constructed(cls) :
              codec = NewCodec("round_trip", cls, m, <<>>, <<>>)
       \/ \E cls \in {"ServerKeyExchangeMessage", "ClientKeyExchangeMessage"} :
              \E a \in ByteStrings \cup {pk_abcdef}, b \in ByteStrings \cup {n_12345} :
                  codec = NewCodec("signature", cls, None, a, b)
    /\ IdleRest

\* what a call that returned or raised leaves in the harness
Applied(op, r, pc) ==
    [codec EXCEPT !.op = op, !.pc = IF r.ok THEN pc ELSE "raised", !.error = r.error]

\* data = m.serialize()
Serialize ==
    /\ codec.pc = "constructed"
    /\ codec.test = "round_trip"
    /\ LET r == Message_serialize(codec.cls, codec.m)
       IN  codec' = [Applied("serialize", r, "serialized") EXCEPT
                        !.data = IF r.ok THEN r.value ELSE <<>>]
    /\ UNCHANGED <<handshake, returned, log, calls, server, loop, sock, keys, pubkey, other, tree>>

\* m, length = message_cls.parse_header(header)
ParseHeader ==
    /\ codec.pc = "serialized"
    /\ \E header \in HeaderChoices(codec.cls, codec.data) :
           LET r == Message_parse_header(codec.cls, header)
           IN  codec' = [Applied("parse_header", r, "header") EXCEPT
                            !.header  = header,
                            !.message = IF r.ok THEN r.value.message ELSE None,
                            !.length  = IF r.ok THEN r.value.length ELSE 0]
    /\ UNCHANGED <<handshake, returned, log, calls, server, loop, sock, keys, pubkey, other, tree>>

\* m.parse_body(body): the fields are assigned when the body unpacks, the
\* message stays as parse_header left it when parse_body raises
ParseBody ==
    /\ codec.pc = "header"
    /\ \E body \in BodyChoices(codec.cls, codec.data, codec.length) :
           LET r == Message_parse_body(codec.cls, codec.message, body)
           IN  codec' = [Applied("parse_body", r, "parsed") EXCEPT
                            !.body    = body,
                            !.message = IF r.ok THEN r.value ELSE codec.message]
    /\ UNCHANGED <<handshake, returned, log, calls, server, loop, sock, keys, pubkey, other, tree>>

\* data = message_cls.serialize_for_signature(a, b)
SerializeForSignature ==
    /\ codec.pc = "constructed"
    /\ codec.test = "signature"
    /\ LET r == Message_serialize_for_signature(codec.cls, codec.a, codec.b)
       IN  codec' = [Applied("serialize_for_signature", r, "signed") EXCEPT
                        !.data = IF r.ok THEN r.value ELSE <<>>]
    /\ UNCHANGED <<handshake, returned, log, calls, server, loop, sock, keys, pubkey, other, tree>>

NextCodec == Serialize \/ ParseHeader \/ ParseBody \/ SerializeForSignature

\* the functions of message.py applied to drawn messages and byte strings
SpecCodec == InitCodec /\ [][NextCodec]_vars

-----------------------------------------------------------------------------

(* xaptum/xdaa/sync/io.py: SyncSocket on a stream socket whose peer sends  *)
(* a stream of bytes and closes                                            *)

\* the longest stream the peer sends before it closes
MaxStream == 3

\* the byte values on the stream
StreamBytes == {7, 9}

\* what the peer sends before it closes
Streams == UNION {[1..n -> StreamBytes] : n \in 0..MaxStream}

\* the sizes of the DataRead commands
Sizes == 0..(MaxStream + 1)

\* SyncSocket.mixin_to(obj, sock) on a socket that will deliver stream
SyncSocket(stream) ==
    [pc |-> "idle", op |-> "", to_read |-> stream, written |-> <<>>,
     before |-> stream, size |-> 0, buffer |-> <<>>, pos |-> 0,
     event |-> None, error |-> "none"]

\* the byte counts sock.recv_into(view[pos:], size - pos) can return: 0 when
\* the peer has closed and nothing is left, else any count from 1 to what is
\* left and asked for
RecvCounts(self) ==
    IF self.to_read = <<>> THEN {0}
    ELSE {n \in 1..(self.size - self.pos) : n <= Len(self.to_read)}

\* sock.recv_into(view[pos:], size - pos, flags) returning read: the bytes go
\* to buffer[pos : pos + read] and leave the stream
recv_into(self, read) ==
    [self EXCEPT
        !.buffer  = [i \in 1..self.size |->
                        IF i > self.pos /\ i <= self.pos + read
                        THEN self.to_read[i - self.pos] ELSE self.buffer[i]],
        !.to_read = SubSeq(self.to_read, read + 1, Len(self.to_read))]

\* SyncSocket.data_read once recvexactly has returned data: an empty result
\* is taken for a closed connection
SyncSocket_data_read(self, data) ==
    IF data = <<>>
    THEN [self EXCEPT !.pc = "raised", !.error = "socket.error", !.event = None]
    ELSE [self EXCEPT !.pc = "returned", !.event = DataReadResult(data)]

\* recvexactly at `while pos < size`: another recv_into, or return bytes(buffer)
recvexactly_while(self) ==
    IF self.pos < self.size THEN [self EXCEPT !.pc = "recv"]
    ELSE SyncSocket_data_read(self, self.buffer)

\* faulty variant: when the peer has closed, the bytes received so far are
\* returned
recvexactly_read_returning_partial(self, read) ==
    IF read = 0 THEN SyncSocket_data_read(self, SubSeq(self.buffer, 1, self.pos))
    ELSE recvexactly_while([self EXCEPT !.pos = self.pos + read])

\* recvexactly after recv_into returned read: b'' when read is 0, else pos
\* moves on and the loop goes round
recvexactly_read(self, read) ==
    IF read = 0 THEN SyncSocket_data_read(self, <<>>)
    ELSE recvexactly_while([self EXCEPT !.pos = self.pos + read])

\* recvexactly(sock, size) up to its first recv_into: buffer = bytearray(size),
\* pos = 0
recvexactly(self, size) ==
    recvexactly_while([self EXCEPT !.op = "data_read", !.before = self.to_read,
                                   !.size = size, !.pos = 0,
                                   !.buffer = [i \in 1..size |-> 0],
                                   !.event = None])

\* SyncSocket.data_write: sock.sendall(event.data), then DataWriteResult()
SyncSocket_data_write(self, event) ==
    [self EXCEPT !.op = "data_write", !.pc = "returned",
                 !.written = self.written \o event.data,
                 !.event = DataWriteResult]

InitSocket ==
    /\ handshake = XDAAHandshake(daa_keys)
    /\ returned = NoCall
    /\ log = <<>>
    /\ calls = 0
    /\ server = IdleServer
    /\ loop = IdleLoop
    /\ codec = IdleCodec
    /\ \E stream \in Streams : sock = SyncSocket(stream)
    /\ IdleRest

\* the engine returns DataRead(size): data_read calls recvexactly
DataReadCommand ==
    /\ sock.pc \in {"idle", "returned"}
    /\ \E size \in Sizes : sock' = recvexactly(sock, DataRead(size).size)
    /\ UNCHANGED <<handshake, returned, log, calls, server, loop, codec, keys, pubkey, other, tree>>

\* one sock.recv_into of the loop of recvexactly, and what follows it up to
\* the next recv_into or the end of data_read
RecvInto ==
    /\ sock.pc = "recv"
    /\ \E read \in RecvCounts(sock) : sock' = recvexactly_read(recv_into(sock, read), read)
    /\ UNCHANGED <<handshake, returned, log, calls, server, loop, codec, keys, pubkey, other, tree>>

\* the engine returns DataWrite(data)
DataWriteCommand ==
    /\ sock.pc \in {"idle", "returned"}
    /\ \E data \in Streams :
           /\ Len(sock.written) + Len(data) <= MaxStream
           /\ sock' = SyncSocket_data_write(sock, DataWrite(data))
    /\ UNCHANGED <<handshake, returned, log, calls, server, loop, codec, keys, pubkey, other, tree>>

NextSocket == DataReadCommand \/ RecvInto \/ DataWriteCommand

\* SyncSocket serving the DataRead and DataWrite commands of an engine
SpecSocket == InitSocket /\ [][NextSocket]_vars

-----------------------------------------------------------------------------

(* xaptum/xdaa/daa.py and xaptum/xdaa/xdaa.py: the key bundle string       *)
(* '<GroupId>,<ServerPublicKey>,<ClientPrivateKey>'; a string is the       *)
(* sequence of its code points                                             *)

\* the longest bundle string drawn
MaxCsv == 5

\* ord(',')
Comma == 44

\* the characters of the strings drawn: ',', '1' and, outside ASCII, 'e' with
\* an acute accent
CsvChars == {Comma, 49, 233}

CsvStrings == UNION {[1..n -> CsvChars] : n \in 0..MaxCsv}

\* str.split(sep) with no maxsplit: the pieces between all occurrences of sep
RECURSIVE str_split(_, _)
str_split(s, sep) ==
    IF \A i \in DOMAIN s : s[i] # sep THEN <<s>>
    ELSE LET k == CHOOSE i \in DOMAIN s : s[i] = sep /\ \A j \in 1..(i - 1) : s[j] # sep
         IN  <<SubSeq(s, 1, k - 1)>> \o str_split(SubSeq(s, k + 1, Len(s)), sep)

\* codecs.encode(text, 'ascii'): the bytes of the code points, none above 127
codecs_encode_ascii(text) ==
    IF \E i \in DOMAIN text : text[i] > 127 THEN Err("UnicodeError") ELSE Ok(text)

\* Keys(*parts): __init__ takes three arguments and encodes each of them
Keys(parts) ==
    IF Len(parts) # 3 THEN Err("TypeError")
    ELSE IF \E i \in 1..3 : ~codecs_encode_ascii(parts[i]).ok THEN Err("UnicodeError")
    ELSE Ok([group_id           |-> codecs_encode_ascii(parts[1]).value,
             server_public_key  |-> codecs_encode_ascii(parts[2]).value,
             client_private_key |-> codecs_encode_ascii(parts[3]).value])

\* faulty variant: csv.split(',', 2)
from_csv_maxsplit(csv) ==
    LET parts == str_split(csv, Comma)
    IN  IF Len(parts) <= 3 THEN Keys(parts)
        ELSE LET k == Len(parts[1]) + Len(parts[2]) + 2
             IN  Keys(<<parts[1], parts[2], SubSeq(csv, k + 1, Len(csv))>>)

\* Keys.from_csv(csv)
Keys_from_csv(csv) == Keys(str_split(csv, Comma))

\* negotiate_secret: daa_group = DAAGroup(*group.split(','))
negotiate_secret_daa_group(group) ==
    IF Len(str_split(group, Comma)) # 3 THEN Err("TypeError")
    ELSE Ok(DAAGroup(str_split(group, Comma)[1], str_split(group, Comma)[2],
                     str_split(group, Comma)[3]))

\* a bundle string given, nothing made of it yet
NewKeys(csv) ==
    [pc |-> "given", csv |-> csv, op |-> "", bundle |-> None, error |-> "none"]

InitKeys ==
    /\ handshake = XDAAHandshake(daa_keys)
    /\ returned = NoCall
    /\ log = <<>>
    /\ calls = 0
    /\ server = IdleServer
    /\ loop = IdleLoop
    /\ codec = IdleCodec
    /\ sock = IdleSock
    /\ \E csv \in CsvStrings : keys = NewKeys(csv)
    /\ pubkey = IdlePublicKey
    /\ other = IdleOther
    /\ tree = IdleTree

\* what a parse leaves: the bundle, or the exception raised
Parsed(op, r) ==
    IF r.ok THEN [keys EXCEPT !.pc = "parsed", !.op = op, !.bundle = r.value]
    ELSE [keys EXCEPT !.pc = "raised", !.op = op, !.error = r.error]

\* daa.Keys.from_csv(csv)
FromCsv ==
    /\ keys.pc = "given"
    /\ keys' = Parsed("from_csv", Keys_from_csv(keys.csv))
    /\ UNCHANGED <<handshake, returned, log, calls, server, loop, codec, sock, pubkey, other, tree>>

\* the first statement of xdaa.negotiate_secret(sock, group)
NegotiateSecretGroup ==
    /\ keys.pc = "given"
    /\ keys' = Parsed("negotiate_secret", negotiate_secret_daa_group(keys.csv))
    /\ UNCHANGED <<handshake, returned, log, calls, server, loop, codec, sock, pubkey, other, tree>>

NextKeys == FromCsv \/ NegotiateSecretGroup

\* the two parsers of the bundle string on the strings drawn
SpecKeys == InitKeys /\ [][NextKeys]_vars

-----------------------------------------------------------------------------

(* xaptum/xdaa/xdaa.py: negotiate_secret, the engine with SyncCrypto and   *)
(* SyncSocket mixed in, on a socket whose peer sends a stream and closes   *)

\* the bundle string of the bundle daa_keys
daa_keys_csv ==
    daa_keys.group_id \o <<Comma>> \o daa_keys.server_public_key \o <<Comma>>
    \o daa_keys.client_private_key

\* a ServerKeyExchange, signed for the client nonce of seed 1, whose
\* ephemeral key is one byte longer than a key of the curve
LongKeyWire ==
    ServerKeyExchangeMessage_serialize(
        ServerKeyExchangeMessage(
            daa_keys.group_id, Urandom(NonceSize, 1), [i \in 1..(KeyLen + 1) |-> i],
            secp256r1_sign_sha256(
                secp256r1_private_key_from_int_hex(daa_keys.client_private_key),
                ServerKeyExchangeMessage_serialize_for_signature(
                    [i \in 1..(KeyLen + 1) |-> i], Urandom(NonceSize, 1)).value))).value

\* a ServerKeyExchange of the provisioned group, signed for the client nonce
\* of seed 1, whose server nonce is one byte shorter than a nonce
ShortNonceWire ==
    ServerKeyExchangeMessage_serialize(
        ServerKeyExchangeMessage(
            daa_keys.group_id, Urandom(NonceSize - 1, 1),
            x25519_to_bytes_be(x25519_public(x25519_key_pair(5))),
            secp256r1_sign_sha256(
                secp256r1_private_key_from_int_hex(daa_keys.client_private_key),
                ServerKeyExchangeMessage_serialize_for_signature(
                    x25519_to_bytes_be(x25519_public(x25519_key_pair(5))),
                    Urandom(NonceSize, 1)).value))).value

\* what the peer sends before it closes: a ServerKeyExchange, whole or cut
\* short in its header or in its body
PeerStreams ==
    UNION {{Slice(w, 0, n) : n \in {0, 5, 9, Len(w) - 1, Len(w)}}
           : w \in Wires \cup {LongKeyWire, ShortNonceWire}}

\* donna25519.keys.PublicKey(bytes_le) raises ValueError unless bytes_le has
\* the length of a key of the curve
x25519_public_key_rejected(event) ==
    event.kind = "EPHEMERAL_DECODE_PUBLIC_KEY" /\ Len(event.encoded_public_key) # KeyLen

\* the loops of SyncSocket.receive and SyncCrypto.receive and the socket
Driver(lp, sk) == [loop |-> lp, sock |-> sk]

\* SyncSocket.receive once data_write or data_read has come to an end or to
\* its next recv_into: the result event goes round the loop, an exception
\* leaves it
SyncSocket_receive_dispatched(lp, sk) ==
    IF sk.pc = "raised" THEN Driver([lp EXCEPT !.pc = "raised", !.error = sk.error], sk)
    ELSE IF sk.pc = "recv" THEN Driver([lp EXCEPT !.pc = "recv"], sk)
    ELSE Driver([lp EXCEPT !.pc = "run", !.event = sk.event], sk)

\* faulty variant: a crypto request is returned to the caller of receive()
receive_returning_request(lp, sk, event) ==
    Driver([lp EXCEPT !.pc = "returned", !.event = event], sk)

\* SyncCrypto.receive: event = self._sync_crypto_dispatch[event.kind](event)
SyncCrypto_receive_dispatched(lp, sk, event) ==
    IF x25519_public_key_rejected(event)
    THEN Driver([lp EXCEPT !.pc = "raised", !.error = "ValueError"], sk)
    ELSE Driver([lp EXCEPT !.event = SyncCrypto_dispatch(event, lp.rnd)], sk)

\* start() has returned: return handshake.shared_secret, an attribute the
\* context has only once the engine has assigned it
negotiate_secret_return(lp, sk, h) ==
    IF h.context.shared_secret = Unset
    THEN Driver([lp EXCEPT !.pc = "raised", !.error = "AttributeError"], sk)
    ELSE Driver([lp EXCEPT !.pc = "returned", !.event = h.context.shared_secret], sk)

\* faulty variant: an exception of the engine is swallowed and the event is
\* fed again
receive_retrying(lp, sk, h, ret, exc) ==
    IF exc # "none" THEN Driver(lp, sk)
    ELSE IF ret = None
    THEN Driver([lp EXCEPT !.pc = "raised", !.error = "AttributeError"], sk)
    ELSE IF ret.kind \in SyncCrypto_kinds THEN SyncCrypto_receive_dispatched(lp, sk, ret)
    ELSE IF ret.kind = "DATA_WRITE"
    THEN SyncSocket_receive_dispatched(lp, SyncSocket_data_write(sk, ret))
    ELSE IF ret.kind = "DATA_READ"
    THEN SyncSocket_receive_dispatched(lp, recvexactly(sk, ret.size))
    ELSE negotiate_secret_return(lp, sk, h)

\* one turn of the two receive loops after XDAAHandshake.receive has returned
\* ret or raised exc: an exception propagates; `event.kind` of None raises
\* AttributeError; a crypto request is answered by SyncCrypto, a DataWrite or
\* DataRead by SyncSocket; any other event is returned to start(), and
\* negotiate_secret returns the secret
SyncSocket_receive(lp, sk, h, ret, exc) ==
    IF exc # "none" THEN Driver([lp EXCEPT !.pc = "raised", !.error = exc], sk)
    ELSE IF ret = None
    THEN Driver([lp EXCEPT !.pc = "raised", !.error = "AttributeError"], sk)
    ELSE IF ret.kind \in SyncCrypto_kinds THEN SyncCrypto_receive_dispatched(lp, sk, ret)
    ELSE IF ret.kind = "DATA_WRITE"
    THEN SyncSocket_receive_dispatched(lp, SyncSocket_data_write(sk, ret))
    ELSE IF ret.kind = "DATA_READ"
    THEN SyncSocket_receive_dispatched(lp, recvexactly(sk, ret.size))
    ELSE negotiate_secret_return(lp, sk, h)

\* negotiate_secret(sock, group) up to handshake.start()
InitDriver ==
    /\ handshake = XDAAHandshake(negotiate_secret_daa_group(daa_keys_csv).value)
    /\ returned = NoCall
    /\ log = <<>>
    /\ calls = 0
    /\ server = IdleServer
    /\ \E seed \in {1, 2}, a \in Scalars :
           loop = [pc |-> "run", event |-> Start,
                   rnd |-> [seed |-> seed, private |-> a], error |-> "none"]
    /\ codec = IdleCodec
    /\ \E stream \in PeerStreams : sock = SyncSocket(stream)
    /\ IdleRest

\* the event in hand goes to the engine, and what the engine returns is
\* dispatched
DriverReceive ==
    /\ loop.pc = "run"
    /\ Call(loop.event)
    /\ \E d \in {SyncSocket_receive(loop, sock, handshake', returned'.ret, returned'.exc)} :
           loop' = d.loop /\ sock' = d.sock
    /\ UNCHANGED <<calls, server, codec, keys, pubkey, other, tree>>

\* one sock.recv_into of the recvexactly in progress
DriverRecvInto ==
    /\ loop.pc = "recv"
    /\ \E read \in RecvCounts(sock) :
           \E d \in {SyncSocket_receive_dispatched(
                         loop, recvexactly_read(recv_into(sock, read), read))} :
               loop' = d.loop /\ sock' = d.sock
    /\ UNCHANGED <<handshake, returned, log, calls, server, codec, keys, pubkey, other, tree>>

NextDriver == DriverReceive \/ DriverRecvInto

\* xdaa.negotiate_secret on a blocking socket
SpecDriver == InitDriver /\ [][NextDriver]_vars

\* SyncSocket.mixin_to has given the handshake a socket
MixedIn == sock # IdleSock

\* the handshake with SyncCrypto and SyncSocket, or with SyncCrypto only
InitMixins == InitDriver \/ InitLoop

\* a turn of the receive loops of the handshake with both mixins
MixinReceive == MixedIn /\ DriverReceive

\* a recv_into of the handshake with both mixins
MixinRecvInto == MixedIn /\ DriverRecvInto

\* a turn of the receive loop of the handshake with SyncCrypto only, under
\* the driver loop of the tests
CryptoOnlyStep == ~MixedIn /\ LoopStep

NextMixins == MixinReceive \/ MixinRecvInto \/ CryptoOnlyStep

\* start() on the handshake with both mixins or with SyncCrypto only
SpecMixins == InitMixins /\ [][NextMixins]_vars

-----------------------------------------------------------------------------

(* test/xaptum/crypto/test_x25519.py: public keys decoded from drawn bytes *)
(* and encoded again                                                       *)

\* the byte values of the encodings drawn
KeyBytes == 0..7

\* the encodings drawn: every string of the length of a key
KeyStrings == [1..KeyLen -> KeyBytes]

\* an encoding given, nothing decoded yet
NewPublicKey(b) ==
    [pc |-> "given", b |-> b, from |-> "", key |-> None, to |-> "", out |-> NoneBytes]

InitX25519 ==
    /\ handshake = XDAAHandshake(daa_keys)
    /\ returned = NoCall
    /\ log = <<>>
    /\ calls = 0
    /\ server = IdleServer
    /\ loop = IdleLoop
    /\ codec = IdleCodec
    /\ sock = IdleSock
    /\ keys = IdleKeys
    /\ \E b \in KeyStrings : pubkey = NewPublicKey(b)
    /\ other = IdleOther
    /\ tree = IdleTree

\* key = x25519.public_key_from_bytes_be(b)
PublicKeyFromBytesBe ==
    /\ pubkey.pc = "given"
    /\ pubkey' = [pubkey EXCEPT !.pc = "decoded", !.from = "be",
                                !.key = x25519_public_key_from_bytes_be(pubkey.b)]
    /\ UNCHANGED <<handshake, returned, log, calls, server, loop, codec, sock, keys, other, tree>>

\* key = x25519.public_key_from_bytes_le(b)
PublicKeyFromBytesLe ==
    /\ pubkey.pc = "given"
    /\ pubkey' = [pubkey EXCEPT !.pc = "decoded", !.from = "le",
                                !.key = x25519_public_key_from_bytes_le(pubkey.b)]
    /\ UNCHANGED <<handshake, returned, log, calls, server, loop, codec, sock, keys, other, tree>>

\* key.to_bytes_be()
ToBytesBe ==
    /\ pubkey.pc = "decoded"
    /\ pubkey' = [pubkey EXCEPT !.pc = "encoded", !.to = "be",
                                !.out = x25519_to_bytes_be(pubkey.key)]
    /\ UNCHANGED <<handshake, returned, log, calls, server, loop, codec, sock, keys, other, tree>>

\* key.to_bytes_le()
ToBytesLe ==
    /\ pubkey.pc = "decoded"
    /\ pubkey' = [pubkey EXCEPT !.pc = "encoded", !.to = "le",
                                !.out = x25519_to_bytes_le(pubkey.key)]
    /\ UNCHANGED <<handshake, returned, log, calls, server, loop, codec, sock, keys, other, tree>>

NextX25519 == PublicKeyFromBytesBe \/ PublicKeyFromBytesLe \/ ToBytesBe \/ ToBytesLe

\* the decoders and encoders of x25519.public_key on the encodings drawn
SpecX25519 == InitX25519 /\ [][NextX25519]_vars

-----------------------------------------------------------------------------

(* Two XDAAHandshake instances of the same bundle in one process, each fed *)
(* the results of a run of its own, their receive() calls interleaved      *)

\* the events of a run in the order an engine asks for them: start(), then
\* the results of a backend that drew the nonce of `seed`, against a server
\* that sent `wire`
Script(seed, wire) ==
    <<Start,
      GroupDecodePublicKeyResult(
          secp256r1_public_key_from_encoded_point_hex(daa_keys.server_public_key)),
      GroupDecodePrivateKeyResult(
          secp256r1_private_key_from_int_hex(daa_keys.client_private_key)),
      CreateNonceResult(Urandom(NonceSize, seed)),
      EphemeralCreateKeyResult(x25519_key_pair(6)),
      DataWriteResult,
      DataReadResult(Slice(wire, 0, 9)),
      DataReadResult(Slice(wire, 9, Len(wire))),
      GroupSHA256VerifySignatureResult(TRUE),
      EphemeralDecodePublicKeyResult(x25519_public(x25519_key_pair(5))),
      EphemeralEncodePublicKeyResult(x25519_to_bytes_be(x25519_public(x25519_key_pair(6)))),
      GroupSHA256SignDataResult(<<48, 7, 1>>),
      DataWriteResult,
      EphemeralComputeSharedSecretResult(
          x25519_compute_shared(x25519_key_pair(6), x25519_public(x25519_key_pair(5))))>>

\* the runs drawn: either nonce, against the honest server or one of another
\* group
Scripts ==
    {Script(seed, wire) : seed \in {1, 2},
                          wire \in {GoodWire, WireOf(0, <<49, 51>>, Urandom(NonceSize, 1))}}

\* an engine with the record of its calls: the object, the last call, the
\* calls that changed it or returned an event
Run(h, ret, history) == [handshake |-> h, returned |-> ret, log |-> history]

\* the run once handshake.receive(event) has had the outcome r
RunAfter(run, event, r) ==
    Run(r.h, [fed |-> event.kind, ret |-> r.ret, exc |-> r.exc],
        IF r.h # run.handshake \/ r.ret # None
        THEN Append(run.log, [fed |-> event, ret |-> r.ret, exc |-> r.exc])
        ELSE run.log)

\* handshake.receive(event) on the engine of run
RunCall(run, event) == RunAfter(run, event, FSM_receive(run.handshake, event))

\* a fresh XDAAHandshake(daa_keys) fed the first n events of script, alone
RECURSIVE Solo(_, _)
Solo(script, n) ==
    IF n = 0 THEN Run(XDAAHandshake(daa_keys), NoCall, <<>>)
    ELSE RunCall(Solo(script, n - 1), script[n])

\* the first engine is `handshake`; `other` holds the second one, the script
\* of each, how far each has got, and which of them was fed last
InitPair ==
    /\ handshake = XDAAHandshake(daa_keys)
    /\ returned = NoCall
    /\ log = <<>>
    /\ calls = 0
    /\ server = IdleServer
    /\ loop = IdleLoop
    /\ codec = IdleCodec
    /\ sock = IdleSock
    /\ keys = IdleKeys
    /\ pubkey = IdlePublicKey
    /\ \E s1 \in Scripts, s2 \in Scripts :
           other = [script1 |-> s1, pos1 |-> 0, script2 |-> s2, pos2 |-> 0, last |-> 0,
                    handshake |-> XDAAHandshake(daa_keys), returned |-> NoCall,
                    log |-> <<>>]
    /\ tree = IdleTree

\* the first instance receives the next event of its script
ReceiveFirst ==
    /\ other.pos1 < Len(other.script1)
    /\ Call(other.script1[other.pos1 + 1])
    /\ calls' = calls + 1
    /\ other' = [other EXCEPT !.pos1 = other.pos1 + 1, !.last = 1]
    /\ UNCHANGED <<server, loop, codec, sock, keys, pubkey, tree>>

\* the second instance receives the next event of its script
ReceiveSecond ==
    /\ other.pos2 < Len(other.script2)
    /\ \E run \in {RunCall(Run(other.handshake, other.returned, other.log),
                           other.script2[other.pos2 + 1])} :
           other' = [other EXCEPT !.pos2 = other.pos2 + 1, !.last = 2,
                                  !.handshake = run.handshake,
                                  !.returned = run.returned,
                                  !.log = run.log]
    /\ calls' = calls + 1
    /\ UNCHANGED <<handshake, returned, log, server, loop, codec, sock, keys, pubkey, tree>>

NextPair == ReceiveFirst \/ ReceiveSecond

\* two engines in one process, in every interleaving of their calls
SpecPair == InitPair /\ [][NextPair]_vars

-----------------------------------------------------------------------------

(* xaptum/fsm/fsm.py: the FSM methods on objects linked as parent and      *)
(* child.  The objects are of the PingPong class of the FSM docstring      *)
(* (states ping and pong, which return Ping and Pong on Entry); a call of  *)
(* become, delegate or terminate is one a state function makes.  `t` is    *)
(* the heap of FSM objects with the record of the call in progress.        *)

\* the FSM objects there are: the root and the children made for delegate()
MaxFsm == 3

Ping == [kind |-> "PING"]
Pong == [kind |-> "PONG"]

\* FSM.__init__: current = self.initial, no child, no parent (0: None)
FSM == [current |-> "initial", maybeChild |-> 0, maybeParent |-> 0]

\* the objects before any call, and the call record: the events passed to
\* state functions during the last call, what it returned or raised
Heap(name, self, arg, fsms) ==
    [pc |-> "run", fsms |-> fsms, trace |-> <<>>, ret |-> None, exc |-> "none",
     op |-> [name |-> name, self |-> self, arg |-> arg]]

\* self.current(event) for Entry and Exit: the event reaches the function of
\* the current state.  ping and pong return their event on Entry and pass
\* Exit to unhandled(), which ignores it; initial passes both to unhandled();
\* final returns Terminated on Entry and raises on every other event
current(t, self, kind) ==
    IF t.fsms[self].current = "final" /\ kind # "ENTRY"
    THEN [t EXCEPT !.trace = Append(@, [fsm |-> self, state |-> "final", kind |-> kind]),
                   !.ret = None, !.exc = "TerminatedError"]
    ELSE [t EXCEPT !.trace = Append(@, [fsm |-> self, state |-> t.fsms[self].current,
                                        kind |-> kind]),
                   !.ret = IF kind # "ENTRY" THEN None
                           ELSE CASE t.fsms[self].current = "ping"  -> Ping
                                  [] t.fsms[self].current = "pong"  -> Pong
                                  [] t.fsms[self].current = "final" -> Terminated
                                  [] OTHER -> None]

\* FSM._exit: self.current(Exit()); self.current = None
exit(t, self) ==
    IF current(t, self, "EXIT").exc # "none" THEN current(t, self, "EXIT")
    ELSE [current(t, self, "EXIT") EXCEPT !.fsms[self].current = "None"]

\* FSM._enter: self.current = state; return self.current(Entry())
enter(t, self, state) ==
    current([t EXCEPT !.fsms[self].current = state], self, "ENTRY")

\* FSM._abort: `if self.maybeChild: self._abort_child` names the method and
\* does not call it; then maybeParent = None and current = self.final.  No
\* state function is called.
abort(t, self) ==
    [t EXCEPT !.fsms[self].maybeParent = 0, !.fsms[self].current = "final"]

\* FSM._abort_child: self.maybeChild._abort(); self.maybeChild = None
abort_child(t, self) ==
    [abort(t, t.fsms[self].maybeChild) EXCEPT !.fsms[self].maybeChild = 0]

\* the rest of become once an active child has been aborted
become_exit_enter(t, self, state) ==
    IF exit(t, self).exc # "none" THEN exit(t, self)
    ELSE enter(exit(t, self), self, state)

\* faulty variant: the new state is entered before the old one is left
become_entering_first(t, self, state) ==
    IF t.fsms[self].maybeChild # 0
    THEN exit(enter(abort_child(t, self), self, state), self)
    ELSE exit(enter(t, self, state), self)

\* FSM.become: abort an active child, _exit(), return _enter(state)
become(t, self, state) ==
    IF t.fsms[self].maybeChild # 0
    THEN become_exit_enter(abort_child(t, self), self, state)
    ELSE become_exit_enter(t, self, state)

\* FSM.terminate: return self.become(self.final)
terminate(t, self) == become(t, self, "final")

\* PingPong.initial on Start: return self.become(self.ping)
initial(t, self) ==
    become([t EXCEPT !.trace = Append(@, [fsm |-> self, state |-> "initial",
                                          kind |-> "START"])],
           self, "ping")

\* FSM.delegate_with(child, Start()): with a child active it calls
\* self._abortChild(), a method no class has; otherwise the child is linked
\* and receives Start, which goes to its initial state
delegate_with(t, self, child) ==
    IF t.fsms[self].maybeChild # 0
    THEN [t EXCEPT !.ret = None, !.exc = "AttributeError"]
    ELSE initial([t EXCEPT !.fsms[self].maybeChild = child,
                           !.fsms[child].maybeParent = self],
                 child)

\* the objects linked below the root, the root included
RECURSIVE Linked(_, _)
Linked(fsms, self) ==
    IF fsms[self].maybeChild = 0 THEN {self}
    ELSE {self} \cup Linked(fsms, fsms[self].maybeChild)

\* the objects whose state functions can make a call: those linked below the
\* root that are in ping or pong
Callers == {self \in Linked(tree.fsms, 1) : tree.fsms[self].current \in {"ping", "pong"}}

\* the objects not yet used: still as constructed, and not the root
Fresh == {c \in 2..MaxFsm : tree.fsms[c] = FSM /\ \A f \in 1..MaxFsm : tree.fsms[f].maybeChild # c}

Rest == <<handshake, returned, log, calls, server, loop, codec, sock, keys, pubkey, other>>

InitFsm ==
    /\ handshake = XDAAHandshake(daa_keys)
    /\ returned = NoCall
    /\ log = <<>>
    /\ calls = 0
    /\ server = IdleServer
    /\ loop = IdleLoop
    /\ codec = IdleCodec
    /\ sock = IdleSock
    /\ keys = IdleKeys
    /\ pubkey = IdlePublicKey
    /\ other = IdleOther
    /\ tree = Heap("", 0, "", [f \in 1..MaxFsm |-> FSM])

\* root.receive(Start()) on the root as constructed
ReceiveStart ==
    /\ tree.fsms[1].current = "initial"
    /\ tree' = initial(Heap("receive", 1, "START", tree.fsms), 1)
    /\ UNCHANGED Rest

\* a state function of an object calls self.become(state)
CallBecome ==
    /\ \E self \in Callers, state \in {"ping", "pong"} :
           tree' = become(Heap("become", self, state, tree.fsms), self, state)
    /\ UNCHANGED Rest

\* a state function of an object calls self.terminate()
CallTerminate ==
    /\ \E self \in Callers :
           tree' = terminate(Heap("terminate", self, "final", tree.fsms), self)
    /\ UNCHANGED Rest

\* a state function of an object calls self.delegate(child) with a child
\* just constructed
CallDelegate ==
    /\ \E self \in Callers, child \in Fresh :
           tree' = delegate_with(Heap("delegate", self, "", tree.fsms), self, child)
    /\ UNCHANGED Rest

NextFsm == ReceiveStart \/ CallBecome \/ CallTerminate \/ CallDelegate

\* the FSM methods called on a root and the children delegated to
SpecFsm == InitFsm /\ [][NextFsm]_vars

-----------------------------------------------------------------------------

(* xaptum/fsm/fsm.py: StepMixin, its two methods called on one object with *)
(* any step number and guard                                               *)

\* the highest value the counter is taken to
MaxStep == 6

\* the step numbers a state function may pass
StepNums == 0..(MaxStep + 1)

\* an object with StepMixin before any call (_step not yet assigned: -1), or
\* after the call `name`(num, guard), which returned `result` or raised
\* `exc`; fired holds the numbers of the steps that returned true since the
\* last init_step(true)
Stepper(self, name, num, guard, result, exc, fired) ==
    [pc |-> "steps", self |-> self, op |-> [name |-> name, num |-> num, guard |-> guard],
     result |-> result, exc |-> exc, fired |-> fired]

InitSteps ==
    /\ handshake = XDAAHandshake(daa_keys)
    /\ returned = NoCall
    /\ log = <<>>
    /\ calls = 0
    /\ server = IdleServer
    /\ loop = IdleLoop
    /\ codec = IdleCodec
    /\ sock = IdleSock
    /\ keys = IdleKeys
    /\ pubkey = IdlePublicKey
    /\ other = IdleOther
    /\ tree = Stepper([step |-> -1], "", 0, FALSE, FALSE, "none", <<>>)

\* self.init_step(guard)
CallInitStep ==
    /\ \E guard \in BOOLEAN :
           \E r \in {init_step(tree.self, guard)} :
               tree' = Stepper(r.self, "init_step", 0, guard, r.result, "none",
                               IF r.result THEN <<>> ELSE tree.fired)
    /\ UNCHANGED Rest

\* self.step(num, guard); before any init_step(true) the object has no _step
\* and reading it raises AttributeError
CallStep ==
    /\ tree.self.step < MaxStep
    /\ \E num \in StepNums, guard \in BOOLEAN :
           IF tree.self.step = -1
           THEN tree' = Stepper(tree.self, "step", num, guard, FALSE, "AttributeError",
                                tree.fired)
           ELSE \E r \in {step(tree.self, num, guard)} :
                    tree' = Stepper(r.self, "step", num, guard, r.result, "none",
                                    IF r.result THEN Append(tree.fired, num)
                                    ELSE tree.fired)
    /\ UNCHANGED Rest

NextSteps == CallInitStep \/ CallStep

\* init_step and step called in any order with any arguments
SpecSteps == InitSteps /\ [][NextSteps]_vars

-----------------------------------------------------------------------------

(* Reading the history *)

\* the log entry e returned a request of one of the kinds
Emitted(e, kinds) == e.ret # None /\ e.ret.kind \in kinds

\* the big-endian u16 at the 1-based position k of s
U16(s, k) == s[k] * 256 + s[k + 1]

\* a 9-byte ServerKeyExchange header of version 0
ParsesAsHeader(event) ==
    /\ event.kind = "DATA_READ_RESULT"
    /\ Len(event.data) = 9
    /\ event.data[1] = 0

\* the requests of the phases after the validation of the ServerKeyExchange,
\* and Terminated
LateKinds ==
    {"EPHEMERAL_DECODE_PUBLIC_KEY", "EPHEMERAL_ENCODE_PUBLIC_KEY",
     "GROUP_SHA256_SIGN_DATA", "EPHEMERAL_COMPUTE_SHARED_SECRET", "TERMINATED"}

\* log[i] returned such a request, or a DataWrite that is not the first one
\* (the ClientKeyExchange write)
LateRequest(i) ==
    \/ Emitted(log[i], LateKinds)
    \/ /\ Emitted(log[i], {"DATA_WRITE"})
       /\ \E j \in 1..(i - 1) : Emitted(log[j], {"DATA_WRITE"})

XDAAErrors ==
    {"InvalidMessageError", "UnsupportedVersionError", "IncorrectGroupError",
     "InvalidSignatureError"}

\* the test server sends version 0 and the group id of the bundle and signs
\* the client's nonce
HonestServer ==
    /\ server.version = 0
    /\ server.group_id = daa_keys.group_id
    /\ server.bad_client_nonce = NoneBytes

-----------------------------------------------------------------------------
(* Properties *)

\* C1 (as the claim states it, under the driver loop of the tests): against a
\* server that holds the group id of the bundle, sends version 0 and signs the
\* client's nonce, the loop ends only by the engine returning Terminated, and
\* then the client's shared_secret equals the secret the server computed.
C1_HappyPath ==
    (HonestServer /\ loop.pc # "run") =>
        /\ loop.pc = "returned"
        /\ returned.ret = Terminated
        /\ handshake.context.shared_secret = server.secret

C3_VersionMismatch ==
    (/\ server.version # 0
     /\ server.group_id = daa_keys.group_id
     /\ server.bad_client_nonce = NoneBytes) =>
        /\ \A i \in DOMAIN log :
               ~Emitted(log[i], {"GROUP_SHA256_VERIFY_SIGNATURE"}) /\ ~LateRequest(i)
        /\ loop.pc # "run" =>
               (loop.pc = "raised" /\ loop.error = "UnsupportedVersionError")

\* C4: under the driver loop of the tests, against a server that sends
\* version 0 and a group id that is not byte-equal to the provisioned one, the
\* engine never asks for a signature verification, and the loop ends only by
\* the engine raising IncorrectGroupError.
C4_GroupMismatch ==
    (server.version = 0 /\ server.group_id # daa_keys.group_id) =>
        /\ \A i \in DOMAIN log :
               ~Emitted(log[i], {"GROUP_SHA256_VERIFY_SIGNATURE"}) /\ ~LateRequest(i)
        /\ loop.pc # "run" =>
               (loop.pc = "raised" /\ loop.error = "IncorrectGroupError"
                /\ returned.exc = "IncorrectGroupError")

\* C4 witness: the loop has ended on IncorrectGroupError against a server
\* whose group id differs from the provisioned one in its last byte only
C4_Witness ==
    /\ server.version = 0
    /\ server.group_id = <<49, 51>>
    /\ loop.pc = "raised"
    /\ loop.error = "IncorrectGroupError"

\* C5: under the driver loop of the tests, against a server that sends
\* version 0 and the provisioned group id but signs a 32-byte nonce other than
\* the client_nonce of the ClientHello, the engine never asks to decode the
\* server's ephemeral key nor makes any later request, and the loop ends only
\* by the engine raising InvalidSignatureError on a verification result false.
C5_SignatureTamper ==
    (/\ server.version = 0
     /\ server.group_id = daa_keys.group_id
     /\ server.bad_client_nonce # NoneBytes
     /\ Len(server.bad_client_nonce) = 32
     /\ server.bad_client_nonce # handshake.context.client_nonce) =>
        /\ \A i \in DOMAIN log : ~LateRequest(i)
        /\ loop.pc # "run" =>
               /\ loop.pc = "raised"
               /\ loop.error = "InvalidSignatureError"
               /\ returned.fed = "GROUP_SHA256_VERIFY_SIGNATURE_RESULT"
               /\ log[Len(log)].fed = GroupSHA256VerifySignatureResult(FALSE)
               /\ log[Len(log)].exc = "InvalidSignatureError"

\* C5 witness: the loop has ended on InvalidSignatureError against a server
\* that signed another nonce than the one the client sent
C5_Witness ==
    /\ server.bad_client_nonce # NoneBytes
    /\ handshake.context.client_nonce # NoneBytes
    /\ server.bad_client_nonce # handshake.context.client_nonce
    /\ loop.pc = "raised"
    /\ loop.error = "InvalidSignatureError"

\* C6 (as the claim states it): once a call has raised InvalidMessageError,
\* UnsupportedVersionError, IncorrectGroupError or InvalidSignatureError, no
\* later call returns a request, and shared_secret is never set.
C6_ErrorsNotResumable ==
    \A i \in DOMAIN log :
        log[i].exc \in XDAAErrors =>
            /\ \A j \in (i + 1)..Len(log) : log[j].ret = None
            /\ handshake.context.shared_secret = Unset

\* C7 (as the claim states it): once the engine is in its final state, every
\* further receive(e), for every event e of any kind, raises TerminatedError,
\* returns no event and leaves the engine as it is.
C7_FinalRejectsEveryEvent ==
    [][handshake.current = "final" =>
          /\ returned'.exc = "TerminatedError"
          /\ returned'.ret = None
          /\ handshake' = handshake]_vars

\* C7, amended: once the engine is in its final state, every further
\* receive(e) leaves the engine (its state and shared_secret) as it is; for
\* every event e of a kind other than ENTRY it raises TerminatedError and
\* returns no event; receive(Entry()) raises nothing and returns Terminated
\* again.
C7_FinalAbsorbing ==
    [][handshake.current = "final" =>
          /\ handshake' = handshake
          /\ IF returned'.fed = "ENTRY"
             THEN returned'.exc = "none" /\ returned'.ret = Terminated
             ELSE returned'.exc = "TerminatedError" /\ returned'.ret = None]_vars

\* C7 witness: the engine is in final with the secret of the result event
\* stored, and a DataWriteResult fed afterwards has raised TerminatedError
C7_Witness ==
    /\ handshake.current = "final"
    /\ handshake.context.shared_secret # Unset
    /\ returned.fed = "DATA_WRITE_RESULT"
    /\ returned.exc = "TerminatedError"

\* C8: the first calls that make the engine move are start() and the results
\* of the requests it made, in this order: start() returns
\* GroupDecodePublicKey(daa_group.server_public_key), its result
\* GroupDecodePrivateKey(daa_group.client_private_key), its result
\* CreateNonce(32), its result EphemeralCreateKey, its result one DataWrite of
\* version 0, the two lengths, daa_group.group_id and the nonce of the
\* CreateNonceResult; the next is DataWriteResult, and no DataRead is returned
\* before it.
C8_RequestOrderToClientHello ==
    /\ Len(log) >= 1 =>
           /\ log[1].fed = Start
           /\ log[1].ret = GroupDecodePublicKey(daa_keys.server_public_key)
    /\ Len(log) >= 2 =>
           /\ log[2].fed.kind = "GROUP_DECODE_PUBLIC_KEY_RESULT"
           /\ log[2].ret = GroupDecodePrivateKey(daa_keys.client_private_key)
    /\ Len(log) >= 3 =>
           /\ log[3].fed.kind = "GROUP_DECODE_PRIVATE_KEY_RESULT"
           /\ log[3].ret = [kind |-> "CREATE_NONCE", size |-> 32]
    /\ Len(log) >= 4 =>
           /\ log[4].fed.kind = "CREATE_NONCE_RESULT"
           /\ log[4].ret = EphemeralCreateKey
    /\ Len(log) >= 5 =>
           /\ log[5].fed.kind = "EPHEMERAL_CREATE_KEY_RESULT"
           /\ log[5].ret = [kind |-> "DATA_WRITE",
                            data |-> <<0, 0, Len(daa_keys.group_id),
                                       0, Len(log[4].fed.nonce)>>
                                     \o daa_keys.group_id \o log[4].fed.nonce]
    /\ Len(log) >= 6 => log[6].fed = DataWriteResult
    /\ \A i \in DOMAIN log :
           /\ Emitted(log[i], {"DATA_READ"}) => i >= 6
           /\ i <= 6 => log[i].exc = "none"

\* C8 witness: the ClientHello has been written and answered, and the engine
\* has asked for its first read
C8_Witness ==
    /\ Len(log) >= 6
    /\ Emitted(log[5], {"DATA_WRITE"})
    /\ Emitted(log[6], {"DATA_READ"})

\* the calls that returned a DataRead
DataReads == {i \in DOMAIN log : Emitted(log[i], {"DATA_READ"})}

\* C9: the engine returns at most two DataRead requests: the first is
\* DataRead(9), returned when the ClientHello write is answered; a version-0
\* header of 9 bytes fed next is answered by DataRead(G+N+P+S), the sum of the
\* four u16 lengths of that header, and a second DataRead is returned in no
\* other way.
C9_TwoReads ==
    /\ Cardinality(DataReads) <= 2
    /\ \A i \in DataReads :
           IF \A j \in DataReads : j >= i
           THEN /\ log[i].ret.size = 9
                /\ log[i].fed = DataWriteResult
                /\ (i + 1 \in DOMAIN log /\ ParsesAsHeader(log[i + 1].fed))
                       => i + 1 \in DataReads
           ELSE /\ i - 1 \in DataReads
                /\ ParsesAsHeader(log[i].fed)
                /\ log[i].ret.size = U16(log[i].fed.data, 2) + U16(log[i].fed.data, 4)
                                     + U16(log[i].fed.data, 6) + U16(log[i].fed.data, 8)

\* C9 witness: both reads have been asked for, the second for a body of
\* another size than the honest server's
C9_Witness ==
    /\ Cardinality(DataReads) = 2
    /\ \E i \in DataReads : log[i].ret.size \notin {9, Len(GoodWire) - 9}

\* C10: in every GroupSHA256VerifySignature request, data is the
\* server_ecdhe_public_key of the message read followed by the client_nonce of
\* the context, which is the nonce written in the ClientHello; public_key is
\* the decoded server group public key; signature is the signature of the
\* message read.
C10_NonceBinding ==
    \A i \in DOMAIN log :
        Emitted(log[i], {"GROUP_SHA256_VERIFY_SIGNATURE"}) =>
            /\ i >= 8
            /\ ParsesAsHeader(log[i - 1].fed)
            /\ log[i].fed.kind = "DATA_READ_RESULT"
            /\ LET hdr   == log[i - 1].fed.data
                   body  == log[i].fed.data
                   hello == log[5].ret.data
                   G     == U16(hdr, 2)
                   N     == U16(hdr, 4)
                   P     == U16(hdr, 6)
                   S     == U16(hdr, 8)
               IN  /\ log[i].ret.data
                          = SubSeq(body, G + N + 1, G + N + P)
                            \o handshake.context.client_nonce
                   /\ handshake.context.client_nonce
                          = SubSeq(hello, 6 + U16(hello, 2), Len(hello))
                   /\ handshake.context.client_nonce = log[4].fed.nonce
                   /\ log[i].ret.public_key = log[2].fed.public_key
                   /\ log[i].ret.public_key = handshake.context.server_group_public_key
                   /\ log[i].ret.signature
                          = SubSeq(body, G + N + P + 1, G + N + P + S)

\* C10 witness: the verification of the honest server's signature has been
\* asked for
C10_Witness ==
    \E i \in DOMAIN log :
        /\ Emitted(log[i], {"GROUP_SHA256_VERIFY_SIGNATURE"})
        /\ log[i].fed = DataReadResult(Slice(GoodWire, 9, Len(GoodWire)))

\* C11 (as the claim states it): when the engine has asked for
\* EphemeralEncodePublicKey and is fed its result, it returns
\* GroupSHA256SignData(client_group_private_key, encoded_client_public ||
\* server_nonce), with server_nonce the nonce of the ServerKeyExchange stored
\* in the context.
C11_SignRequestAfterEncode ==
    \A i \in 2..Len(log) :
        (/\ Emitted(log[i - 1], {"EPHEMERAL_ENCODE_PUBLIC_KEY"})
         /\ log[i].fed.kind = "EPHEMERAL_ENCODE_PUBLIC_KEY_RESULT") =>
            /\ log[i].exc = "none"
            /\ log[i].ret = GroupSHA256SignData(
                                handshake.context.client_group_private_key,
                                log[i].fed.public_key_encoded
                                \o handshake.context.server_nonce)

\* C12 (as the claim states it): for the byte strings k and n drawn,
\* ServerKeyExchangeMessage.serialize_for_signature(k, n) and
\* ClientKeyExchangeMessage.serialize_for_signature(k, n) both return k
\* followed by n.
C12_SignatureInput ==
    (codec.pc # "idle" /\ codec.test = "signature" /\ codec.pc # "constructed") =>
        /\ codec.pc = "signed"
        /\ codec.data = codec.a \o codec.b

\* the harness went the way of decode_message: the header is the first
\* header_len bytes of the serialized message, the body the declared bytes
\* after them
DecodedAsSerialized ==
    /\ codec.header = HeaderOf(codec.cls, codec.data)
    /\ codec.body = BodyOf(codec.cls, codec.data, codec.length)

\* C13 (as the claim states it): for every message constructed, of any field
\* values, serialize returns; parsing the header of the bytes and then the
\* body of the declared length yields a message of version 0 whose fields
\* equal those of the constructed message, and header_len plus the declared
\* length is the length of the bytes.
C13_RoundTripAllFields ==
    (codec.pc # "idle" /\ codec.test = "round_trip") =>
        /\ codec.op = "serialize" => codec.pc = "serialized"
        /\ (codec.op = "parse_header" /\ codec.header = HeaderOf(codec.cls, codec.data)) =>
               /\ codec.pc = "header"
               /\ Message_header_len(codec.cls) + codec.length = Len(codec.data)
        /\ (codec.op = "parse_body" /\ DecodedAsSerialized) =>
               /\ codec.pc = "parsed"
               /\ codec.message.version = 0
               /\ codec.message = codec.m
               /\ Message_header_len(codec.cls) + codec.length = Len(codec.data)

\* C13, amended: serialize returns exactly for the messages whose fields are
\* at most 65535 bytes long each, and raises struct.error for the others; for
\* the bytes it returns, parsing the header and then the body of the declared
\* length yields a message of version 0 whose fields equal those of the
\* constructed message, and header_len plus the declared length is the
\* length of the bytes.
C13_RoundTrip ==
    (codec.pc # "idle" /\ codec.test = "round_trip") =>
        /\ codec.op = "serialize" =>
               IF \A l \in FieldLens(codec.cls, codec.m) : l <= 65535
               THEN codec.pc = "serialized"
               ELSE codec.pc = "raised" /\ codec.error = "struct.error"
        /\ (codec.op = "parse_header" /\ codec.header = HeaderOf(codec.cls, codec.data)) =>
               /\ codec.pc = "header"
               /\ Message_header_len(codec.cls) + codec.length = Len(codec.data)
        /\ (codec.op = "parse_body" /\ DecodedAsSerialized) =>
               /\ codec.pc = "parsed"
               /\ codec.message.version = 0
               /\ codec.message = codec.m
               /\ Message_header_len(codec.cls) + codec.length = Len(codec.data)

\* C13 witness: a ServerKeyExchange of four non-empty fields has been
\* serialized and decoded
C13_Witness ==
    /\ codec.pc = "parsed"
    /\ codec.cls = "ServerKeyExchangeMessage"
    /\ DecodedAsSerialized
    /\ \A l \in FieldLens(codec.cls, codec.m) : l > 0
    /\ codec.message = codec.m

\* C14: for each of the three message classes, parse_header of a header of
\* header_len bytes whose first byte is not zero raises InvalidMessageError
\* and returns no message, whatever the four or eight bytes of lengths are.
C14_VersionRejected ==
    (/\ codec.pc # "idle"
     /\ codec.op = "parse_header"
     /\ Len(codec.header) = Message_header_len(codec.cls)
     /\ codec.header[1] # 0) =>
        /\ codec.pc = "raised"
        /\ codec.error = "InvalidMessageError"
        /\ codec.message = None

\* C14 witness: the header of a serialized message with a body, its version
\* byte set to 1, has been rejected
C14_Witness ==
    /\ codec.pc = "raised"
    /\ codec.op = "parse_header"
    /\ codec.error = "InvalidMessageError"
    /\ Len(codec.header) = Message_header_len(codec.cls)
    /\ codec.header[1] = 1
    /\ Tail(codec.header) = Tail(HeaderOf(codec.cls, codec.data))
    /\ Len(codec.data) > Message_header_len(codec.cls)

\* C15: for each of the three message classes, parse_header of a byte string
\* whose length is not the header length of the class (5, 9, 5), shorter or
\* longer, raises InvalidMessageError and returns no message.
C15_HeaderLength ==
    (/\ codec.pc # "idle"
     /\ codec.op = "parse_header"
     /\ Len(codec.header) # Message_header_len(codec.cls)) =>
        /\ codec.pc = "raised"
        /\ codec.error = "InvalidMessageError"
        /\ codec.message = None

\* C15 witness: the first four bytes of a serialized ClientKeyExchange, of
\* version 0, have been rejected
C15_Witness ==
    /\ codec.pc = "raised"
    /\ codec.op = "parse_header"
    /\ codec.error = "InvalidMessageError"
    /\ codec.cls = "ClientKeyExchangeMessage"
    /\ Len(codec.header) = 4
    /\ codec.header[1] = 0

\* the sum of the field lengths declared in a parsed header
DeclaredLen(cls, message) ==
    CASE cls = "ClientHelloMessage" ->
             message.client_group_id_len + message.client_nonce_len
      [] cls = "ServerKeyExchangeMessage" ->
             message.server_group_id_len + message.server_nonce_len
             + message.server_ecdhe_public_key_len + message.signature_len
      [] cls = "ClientKeyExchangeMessage" ->
             message.client_ecdhe_public_key_len + message.signature_len

\* C16: for each of the three message classes, parse_body of a body whose
\* length is not the sum of the field lengths declared in the parsed header,
\* shorter or longer, raises InvalidMessageError, and the message is as
\* parse_header returned it: every body field still empty.
C16_BodyLength ==
    (/\ codec.pc # "idle"
     /\ codec.op = "parse_body"
     /\ Len(codec.body) # DeclaredLen(codec.cls, codec.message)) =>
        /\ codec.pc = "raised"
        /\ codec.error = "InvalidMessageError"
        /\ codec.message = Message_parse_header(codec.cls, codec.header).value.message
        /\ \A l \in FieldLens(codec.cls, codec.message) : l = 0

\* C16 witness: a ServerKeyExchange body one byte shorter than the header
\* declares has been rejected
C16_Witness ==
    /\ codec.pc = "raised"
    /\ codec.op = "parse_body"
    /\ codec.error = "InvalidMessageError"
    /\ codec.cls = "ServerKeyExchangeMessage"
    /\ Len(codec.body) + 1 = DeclaredLen(codec.cls, codec.message)

\* C17: a DataReadResult produced by SyncSocket for DataRead(n) holds exactly
\* n bytes, never fewer; when the stream held fewer than n bytes at the call
\* (the peer closes at the first recv or after a partial read), the call ends
\* only by raising socket.error, with no result event.
C17_ReadExactlyFailure ==
    (sock.pc # "idle" /\ sock.op = "data_read") =>
        /\ sock.pc = "returned" => Len(sock.event.data) = sock.size
        /\ (Len(sock.before) < sock.size /\ sock.pc # "recv") =>
               /\ sock.pc = "raised"
               /\ sock.error = "socket.error"
               /\ sock.event = None
        /\ sock.pc = "recv" => sock.pos < sock.size

\* C17 witness: the peer closed after some bytes of a partial read, and the
\* call raised
C17_Witness ==
    /\ sock.pc = "raised"
    /\ sock.op = "data_read"
    /\ sock.pos > 0
    /\ sock.pos < sock.size
    /\ sock.to_read = <<>>

\* C18 (as the claim states it): for every size from 0 up and every stream
\* that holds at least size bytes at the call, however recv_into splits
\* them, DataRead(size) ends by returning DataReadResult(data) with data the
\* first size bytes of the stream, and the bytes after them are still to be
\* read.
C18_ReadExactlySuccess ==
    (/\ sock.pc # "idle"
     /\ sock.op = "data_read"
     /\ sock.pc # "recv"
     /\ Len(sock.before) >= sock.size) =>
        /\ sock.pc = "returned"
        /\ sock.event = DataReadResult(SubSeq(sock.before, 1, sock.size))
        /\ Len(sock.event.data) = sock.size
        /\ sock.to_read = SubSeq(sock.before, sock.size + 1, Len(sock.before))

\* the calls that returned a DataWrite
DataWrites == {i \in DOMAIN log : Emitted(log[i], {"DATA_WRITE"})}

\* the ClientHello of this handshake, serialized
HelloBytes ==
    ClientHelloMessage_serialize(
        ClientHelloMessage(daa_keys.group_id, handshake.context.client_nonce)).value

\* the ClientKeyExchange of this handshake, serialized: the client's public
\* key big-endian, and the signature of the key followed by the server nonce
\* under the client's group private key
KeyExchangeBytes ==
    ClientKeyExchangeMessage_serialize(
        ClientKeyExchangeMessage(
            x25519_to_bytes_be(x25519_public(handshake.context.client_ephemeral_private_key)),
            secp256r1_sign_sha256(
                handshake.context.client_group_private_key,
                x25519_to_bytes_be(x25519_public(handshake.context.client_ephemeral_private_key))
                \o handshake.context.server_nonce))).value

\* C19 (as the claim states it, under the driver loop of the tests against
\* the honest server): the handshake completes, having returned exactly two
\* DataWrite requests, the serialized ClientHello first and the serialized
\* ClientKeyExchange last, with the two DataRead requests between them; what
\* data_write has sent for them, from an empty socket, is the one followed by
\* the other and nothing else.
C19_WireOrder ==
    (HonestServer /\ loop.pc # "run") =>
        /\ loop.pc = "returned"
        /\ Cardinality(DataWrites) = 2
        /\ Cardinality(DataReads) = 2
        /\ \E i \in DataWrites, j \in DataWrites :
               /\ i < j
               /\ log[i].ret.data = HelloBytes
               /\ log[j].ret.data = KeyExchangeBytes
               /\ \A k \in DataReads : i < k /\ k < j
               /\ SyncSocket_data_write(
                      SyncSocket_data_write(SyncSocket(<<>>), log[i].ret),
                      log[j].ret).written = HelloBytes \o KeyExchangeBytes

\* C20 (as the claim states it, under the driver loop of the tests against
\* the honest server): negotiate_secret returns, and the shared_secret it
\* returns is the X25519 output for the client's ephemeral private key and
\* the server's ephemeral public key with its bytes reversed once.
C20_FinalSecretByteOrder ==
    (HonestServer /\ loop.pc # "run") =>
        /\ loop.pc = "returned"
        /\ handshake.context.shared_secret =
               Reverse(x25519_compute_shared(
                           handshake.context.client_ephemeral_private_key,
                           handshake.context.server_ephemeral_public_key))
        /\ handshake.context.shared_secret #
               x25519_compute_shared(handshake.context.client_ephemeral_private_key,
                                     handshake.context.server_ephemeral_public_key)

\* the context field f holds another value than XDAAContext.__init__ left
Written(f) == handshake.context[f] # XDAAContext[f]

\* the fields the engine writes after construction, in the order the data
\* model lists them
ListedOrder ==
    <<"client_nonce", "server_nonce", "client_group_private_key",
      "server_group_public_key", "client_ephemeral_private_key",
      "server_ephemeral_public_key", "shared_secret">>

\* the same fields in the order the state functions assign them
AssignedOrder ==
    <<"server_group_public_key", "client_group_private_key", "client_nonce",
      "client_ephemeral_private_key", "server_nonce",
      "server_ephemeral_public_key", "shared_secret">>

\* no field of the order is written while one before it is not
WrittenInOrder(order) ==
    \A i \in DOMAIN order, j \in DOMAIN order :
        (i < j /\ Written(order[j])) => Written(order[i])

\* a field that is written keeps its value in the step
WrittenOnce ==
    \A i \in DOMAIN AssignedOrder :
        Written(AssignedOrder[i]) =>
            handshake'.context[AssignedOrder[i]] = handshake.context[AssignedOrder[i]]

\* C21 (as the claim states it): each context field is written at most once,
\* and after protocol_version and daa_group, written at construction, the
\* writes come in the order client_nonce, server_nonce,
\* client_group_private_key, server_group_public_key,
\* client_ephemeral_private_key, server_ephemeral_public_key, shared_secret.
C21_WritesInListedOrder ==
    [][WrittenOnce /\ WrittenInOrder(ListedOrder)']_vars

\* C21, amended: each context field is written at most once, and after
\* protocol_version and daa_group, written at construction, the writes come
\* in the order server_group_public_key, client_group_private_key,
\* client_nonce, client_ephemeral_private_key, server_nonce,
\* server_ephemeral_public_key, shared_secret.
C21_WritesInAssignedOrder ==
    [][WrittenOnce /\ WrittenInOrder(AssignedOrder)']_vars

\* C21 witness: every field up to server_ephemeral_public_key is written,
\* shared_secret is not
C21_Witness ==
    /\ Written("server_nonce")
    /\ Written("server_ephemeral_public_key")
    /\ ~Written("shared_secret")
    /\ handshake.context.protocol_version = 0
    /\ handshake.context.daa_group = daa_keys

\* C22 (as the claim states it): shared_secret is set exactly when the
\* engine is in its final state, it was set by the call that returned
\* Terminated, and it is not set in any state of a handshake in which a call
\* has raised InvalidMessageError, UnsupportedVersionError,
\* IncorrectGroupError or InvalidSignatureError.
C22_SecretOnlyAtTerminal ==
    /\ handshake.context.shared_secret # Unset <=> handshake.current = "final"
    /\ handshake.current = "final" =>
           \E i \in DOMAIN log :
               /\ log[i].ret = Terminated
               /\ log[i].fed = EphemeralComputeSharedSecretResult(
                                   handshake.context.shared_secret)
    /\ (\E i \in DOMAIN log : log[i].exc \in XDAAErrors) =>
           handshake.context.shared_secret = Unset

CommaCount(s) == Cardinality({i \in DOMAIN s : s[i] = Comma})

\* the position of the n-th comma of s
NthComma(s, n) ==
    CHOOSE i \in DOMAIN s : s[i] = Comma /\ CommaCount(SubSeq(s, 1, i)) = n

\* the three fields of s when it is cut at its first two commas only
CutAtFirstTwoCommas(s) ==
    [group_id           |-> SubSeq(s, 1, NthComma(s, 1) - 1),
     server_public_key  |-> SubSeq(s, NthComma(s, 1) + 1, NthComma(s, 2) - 1),
     client_private_key |-> SubSeq(s, NthComma(s, 2) + 1, Len(s))]

\* C25 (as the claim states it): every bundle string with at least two commas
\* parses, and yields the text before the first comma, the text between the
\* first and the second, and everything after the second, further commas
\* included.
C25_SplitOnFirstTwoCommas ==
    (keys.pc # "given" /\ CommaCount(keys.csv) >= 2) =>
        /\ keys.pc = "parsed"
        /\ keys.bundle = CutAtFirstTwoCommas(keys.csv)

\* C25 (amended): the string is split on every comma. With exactly two commas
\* the bundle holds the texts before, between and after them (Keys.from_csv
\* raises UnicodeError instead when a character is not ASCII); with any other
\* number of commas the parse raises TypeError.
C25_SplitOnEveryComma ==
    keys.pc # "given" =>
        IF CommaCount(keys.csv) # 2
        THEN keys.pc = "raised" /\ keys.error = "TypeError"
        ELSE IF keys.op = "from_csv" /\ \E i \in DOMAIN keys.csv : keys.csv[i] > 127
        THEN keys.pc = "raised" /\ keys.error = "UnicodeError"
        ELSE keys.pc = "parsed" /\ keys.bundle = CutAtFirstTwoCommas(keys.csv)

C25_Witness ==
    /\ keys.pc = "parsed"
    /\ keys.op = "from_csv"
    /\ CommaCount(keys.csv) = 2
    /\ keys.bundle.group_id # <<>>
    /\ keys.bundle.client_private_key # <<>>

\* what holds of the driver at every moment: it has returned only after the
\* engine returned Terminated; an exception of the engine or of the socket
\* has ended it, and is the error the caller sees
DriverPropagates ==
    /\ loop.pc = "returned" =>
           returned.ret = Terminated /\ handshake.current = "final"
    /\ returned.exc # "none" => loop.pc = "raised" /\ loop.error = returned.exc
    /\ sock.error # "none" => loop.pc = "raised" /\ loop.error = sock.error
    /\ loop.pc = "raised" => loop.error # "none"
    /\ loop.pc # "raised" => loop.error = "none"

\* C23: negotiate_secret returns only when the engine has returned
\* Terminated; an error of the engine, of the socket or of the crypto backend
\* becomes the error of the caller, and once negotiate_secret has raised or
\* returned nothing more is fed to the engine, read from or written to the
\* socket.
C23_ErrorPropagation == [][loop.pc \in {"run", "recv"} /\ DriverPropagates']_vars

\* the peer closed inside the body of its message: socket.error reached the
\* caller after the hello was written and the header read
C23_Witness ==
    /\ loop.pc = "raised"
    /\ loop.error = "socket.error"
    /\ sock.error = "socket.error"
    /\ sock.written # <<>>
    /\ sock.pos > 0
    /\ returned.ret.kind = "DATA_READ"

\* C26: a public key decoded from big-endian bytes encodes to the same bytes
\* big-endian and to the reversed bytes little-endian, and a key decoded from
\* little-endian bytes encodes to the same bytes little-endian.
C26_PublicKeyByteOrder ==
    pubkey.pc = "encoded" =>
        /\ (pubkey.from = "be" /\ pubkey.to = "be") => pubkey.out = pubkey.b
        /\ (pubkey.from = "le" /\ pubkey.to = "le") => pubkey.out = pubkey.b
        /\ (pubkey.from = "be" /\ pubkey.to = "le") => pubkey.out = Reverse(pubkey.b)

\* a key whose reversal differs, decoded big-endian and encoded little-endian
C26_Witness ==
    /\ pubkey.pc = "encoded"
    /\ pubkey.from = "be"
    /\ pubkey.to = "le"
    /\ pubkey.out # pubkey.b

\* the secret carried by the EphemeralComputeSharedSecretResult on which the
\* engine returned Terminated
FedSecrets ==
    {log[i].fed.secret : i \in {j \in DOMAIN log : log[j].ret = Terminated}}

\* C28 (as the claim states it): the shared_secret the engine stores is the
\* byte-reversal of the secret carried by the result event fed to it.
C28_EngineReversesSecret ==
    handshake.current = "final" =>
        \E s \in FedSecrets : handshake.context.shared_secret = Reverse(s)

\* C28 (amended): the engine stores the secret of the result event byte for
\* byte; the reversal of the X25519 output is made, once, by the backend
\* before it builds the result event.
C28_EngineStoresSecretAsFed ==
    /\ handshake.current = "final" =>
           \E s \in FedSecrets : handshake.context.shared_secret = s
    /\ \A a \in Scalars, b \in Scalars :
           SyncCrypto_ephemeral_compute_shared_secret(
               EphemeralComputeSharedSecret(x25519_key_pair(a),
                                            x25519_public(x25519_key_pair(b)))).secret
           = Reverse(x25519_compute_shared(x25519_key_pair(a),
                                           x25519_public(x25519_key_pair(b))))

\* the engine has terminated on a secret that differs from its reversal
C28_Witness ==
    /\ handshake.current = "final"
    /\ returned.ret = Terminated
    /\ handshake.context.shared_secret \in FedSecrets
    /\ handshake.context.shared_secret # Reverse(handshake.context.shared_secret)

\* the kind of the result event that answers a request of kind k
ResultKind(k) ==
    CASE k = "DATA_WRITE"                      -> "DATA_WRITE_RESULT"
      [] k = "DATA_READ"                       -> "DATA_READ_RESULT"
      [] k = "CREATE_NONCE"                    -> "CREATE_NONCE_RESULT"
      [] k = "EPHEMERAL_CREATE_KEY"            -> "EPHEMERAL_CREATE_KEY_RESULT"
      [] k = "EPHEMERAL_COMPUTE_SHARED_SECRET" -> "EPHEMERAL_COMPUTE_SHARED_SECRET_RESULT"
      [] k = "EPHEMERAL_DECODE_PUBLIC_KEY"     -> "EPHEMERAL_DECODE_PUBLIC_KEY_RESULT"
      [] k = "EPHEMERAL_ENCODE_PUBLIC_KEY"     -> "EPHEMERAL_ENCODE_PUBLIC_KEY_RESULT"
      [] k = "GROUP_DECODE_PUBLIC_KEY"         -> "GROUP_DECODE_PUBLIC_KEY_RESULT"
      [] k = "GROUP_DECODE_PRIVATE_KEY"        -> "GROUP_DECODE_PRIVATE_KEY_RESULT"
      [] k = "GROUP_SHA256_SIGN_DATA"          -> "GROUP_SHA256_SIGN_DATA_RESULT"
      [] k = "GROUP_SHA256_VERIFY_SIGNATURE"   -> "GROUP_SHA256_VERIFY_SIGNATURE_RESULT"
      [] OTHER                                 -> "none"

\* the last call returned a request, which is outstanding
Outstanding ==
    returned.exc = "none" /\ returned.ret # None /\ ResultKind(returned.ret.kind) # "none"

\* C29 (as the claim states it): when a request is outstanding, a call that
\* feeds a result of another kind raises UnsupportedEventError, returns no
\* request, and leaves the engine (current states, step counter, context) as
\* it was.
C29_OutOfOrderResultRejected ==
    [][(/\ Outstanding
        /\ returned'.fed \in {e.kind : e \in ResultEvents}
        /\ returned'.fed # ResultKind(returned.ret.kind)) =>
           /\ returned'.exc = "UnsupportedEventError"
           /\ returned'.ret = None
           /\ handshake' = handshake]_vars

\* C30 (as the claim states it, under negotiate_secret): client_nonce, once
\* set, is the 32-byte nonce the backend made for CreateNonce(32);
\* server_nonce, once set, is 32 bytes long; and no signature is requested
\* over a server nonce of another length.
C30_NonceLengths ==
    /\ Written("client_nonce") =>
           /\ handshake.context.client_nonce = Urandom(NonceSize, loop.rnd.seed)
           /\ Len(handshake.context.client_nonce) = NonceSize
    /\ Written("server_nonce") => Len(handshake.context.server_nonce) = NonceSize
    /\ \A i \in DOMAIN log :
           Emitted(log[i], {"GROUP_SHA256_SIGN_DATA"}) =>
               Len(handshake.context.server_nonce) = NonceSize

ReturnedOnEntry(state) ==
    CASE state = "ping"  -> Ping
      [] state = "pong"  -> Pong
      [] state = "final" -> Terminated

\* the call just made was a become, or ended in one: receive(Start) on an
\* object in initial, become, terminate, or a delegate that started its child
Became ==
    \/ tree'.op.name \in {"receive", "become", "terminate"}
    \/ tree'.op.name = "delegate" /\ tree'.exc = "none"

\* the object that made the transition: the caller, or the child started
Becomer ==
    IF tree'.op.name = "delegate" THEN tree'.fsms[tree'.op.self].maybeChild
    ELSE tree'.op.self

\* the Entry and Exit events passed to state functions during the call
EntriesAndExits == SelectSeq(tree'.trace, LAMBDA d : d.kind \in {"ENTRY", "EXIT"})

\* C31: a become passes one Exit to the state being left and then one Entry
\* to the new state, no other Entry or Exit is passed, the object is in the
\* new state, and the call returns what the new state returned for Entry.
C31_ExitThenEntry ==
    [][Became =>
          /\ EntriesAndExits =
                 <<[fsm |-> Becomer, state |-> tree.fsms[Becomer].current, kind |-> "EXIT"],
                   [fsm |-> Becomer, state |-> tree'.fsms[Becomer].current, kind |-> "ENTRY"]>>
          /\ tree'.exc = "none"
          /\ tree'.ret = ReturnedOnEntry(tree'.fsms[Becomer].current)
          /\ tree'.op.name \in {"become", "terminate"} =>
                 tree'.fsms[Becomer].current = tree'.op.arg]_vars

\* an object with an active child has gone from ping to pong
C31_Witness ==
    /\ tree.op.name = "become"
    /\ tree.op.arg = "pong"
    /\ tree.trace = <<[fsm |-> 1, state |-> "ping", kind |-> "EXIT"],
                      [fsm |-> 1, state |-> "pong", kind |-> "ENTRY"]>>
    /\ tree.ret = Pong
    /\ tree.fsms[2].current = "final"

\* the state the parent enters when the child of a state has terminated
NextPhase(state) ==
    CASE state = "init_context"                -> "send_client_hello"
      [] state = "send_client_hello"           -> "receive_server_key_exchange"
      [] state = "receive_server_key_exchange" -> "send_client_key_exchange"
      [] state = "send_client_key_exchange"    -> "compute_shared_secret"
      [] OTHER                                 -> "none"

\* what child.receive(event) left in the call just made
ChildReceived == Child_receive(handshake, log'[Len(log')].fed)

\* the call just made reached a child, and the child entered final in it
ChildTerminated ==
    /\ handshake.maybeChild # None
    /\ Len(log') = Len(log) + 1
    /\ ChildReceived.then = "return"
    /\ ChildReceived.ret = Terminated
    /\ ChildReceived.h.maybeChild.current = "final"

BecameWithChild ==
    /\ tree'.op.name \in {"become", "terminate"}
    /\ tree.fsms[tree'.op.self].maybeChild # 0

\* the child of the object and every object linked below it, before the call
Aborted == Linked(tree.fsms, tree.fsms[tree'.op.self].maybeChild)

\* C33 (as the claim states it): when an object with an active child becomes
\* another state, the child and every object linked below it gets Exit in
\* its current state, is in final afterwards with no parent and no child, and
\* final gets no Entry in any of them.
C33_AbortOfChildren ==
    [][BecameWithChild =>
          \A f \in Aborted :
              /\ \E i \in 1..Len(tree'.trace) :
                     tree'.trace[i] = [fsm |-> f, state |-> tree.fsms[f].current,
                                       kind |-> "EXIT"]
              /\ tree'.fsms[f].current = "final"
              /\ tree'.fsms[f].maybeParent = 0
              /\ tree'.fsms[f].maybeChild = 0
              /\ \A i \in 1..Len(tree'.trace) :
                     tree'.trace[i] # [fsm |-> f, state |-> "final", kind |-> "ENTRY"]]_vars

\* the call just made was a delegate of an object that had an active child
DelegatedWithChild ==
    /\ tree'.op.name = "delegate"
    /\ tree.fsms[tree'.op.self].maybeChild # 0

\* C34 (as the claim states it): a delegate on an object with an active child
\* aborts the old child, links the new child as the only child with the
\* object as its parent, passes Start to it, and returns what the new child
\* returned.
C34_DelegateReplacesChild ==
    [][DelegatedWithChild =>
          \E child \in Fresh :
              /\ tree'.exc = "none"
              /\ tree'.fsms[tree.fsms[tree'.op.self].maybeChild].current = "final"
              /\ tree'.fsms[tree.fsms[tree'.op.self].maybeChild].maybeParent = 0
              /\ tree'.fsms[tree'.op.self].maybeChild = child
              /\ tree'.fsms[child].maybeParent = tree'.op.self
              /\ tree'.trace[1] = [fsm |-> child, state |-> "initial", kind |-> "START"]
              /\ tree'.fsms[child].current = "ping"
              /\ tree'.ret = Ping]_vars

\* the engine returned an event to the receive loops in the call just made
EngineReturned ==
    /\ loop.pc = "run"
    /\ returned'.exc = "none"
    /\ returned'.ret # None

\* C35: a crypto request the engine returns is answered by SyncCrypto and the
\* result is the next event fed; with SyncSocket mixed in a DataWrite or
\* DataRead is carried out on the socket and its result fed, or the socket
\* error raised; start() is over only with Terminated returned by the engine
\* or with an exception; with SyncCrypto only, the events that reach the
\* driver are DataWrite, DataRead and Terminated.
C35_MixinLoop ==
    [][/\ EngineReturned /\ returned'.ret.kind \in SyncCrypto_kinds =>
              \/ loop'.pc = "run" /\ loop'.event.kind = ResultKind(returned'.ret.kind)
              \/ loop'.pc = "raised" /\ x25519_public_key_rejected(returned'.ret)
       /\ EngineReturned /\ MixedIn /\ returned'.ret.kind = "DATA_WRITE" =>
              /\ loop'.pc = "run"
              /\ loop'.event = DataWriteResult
              /\ sock'.written = sock.written \o returned'.ret.data
       /\ EngineReturned /\ MixedIn /\ returned'.ret.kind = "DATA_READ" =>
              \/ loop'.pc = "run" /\ loop'.event.kind = "DATA_READ_RESULT"
              \/ loop'.pc = "recv"
              \/ loop'.pc = "raised" /\ loop'.error = "socket.error"
       /\ loop.pc = "recv" =>
              \/ loop'.pc = "run" /\ loop'.event.kind = "DATA_READ_RESULT"
              \/ loop'.pc = "recv"
              \/ loop'.pc = "raised" /\ loop'.error = "socket.error"
       /\ loop'.pc = "returned" => returned'.exc = "none" /\ returned'.ret = Terminated
       /\ loop'.pc \in {"run", "recv", "raised", "returned"}
       /\ EngineReturned /\ ~MixedIn /\ returned'.ret.kind \notin SyncCrypto_kinds =>
              returned'.ret.kind \in {"DATA_WRITE", "DATA_READ", "TERMINATED"}]_vars

\* the handshake with both mixins has had its crypto requests answered, has
\* written its ClientHello and read the whole ServerKeyExchange, and start()
\* has raised
C35_Witness ==
    /\ MixedIn
    /\ loop.pc = "raised"
    /\ loop.error = "NameError"
    /\ Len(sock.written) > 0
    /\ sock.to_read = <<>>
    /\ \E i \in 1..Len(log) : log[i].fed.kind = "GROUP_SHA256_VERIFY_SIGNATURE_RESULT"
    /\ \E i \in 1..Len(log) : log[i].fed.kind = "DATA_READ_RESULT"

\* the body fields a message was constructed with, in the order of its header
FieldsOf(cls, m) ==
    CASE cls = "ClientHelloMessage" -> <<m.client_group_id, m.client_nonce>>
      [] cls = "ServerKeyExchangeMessage" ->
             <<m.server_group_id, m.server_nonce, m.server_ecdhe_public_key, m.signature>>
      [] cls = "ClientKeyExchangeMessage" -> <<m.client_ecdhe_public_key, m.signature>>

\* the i-th u16 length field of a serialized header, after the version byte
LengthField(data, i) == UnpackH(data[2 * i], data[2 * i + 1])

\* where the i-th body field starts in the serialized message, 0-based
RECURSIVE FieldStart(_, _, _)
FieldStart(cls, fields, i) ==
    IF i = 1 THEN Message_header_len(cls)
    ELSE FieldStart(cls, fields, i - 1) + Len(fields[i - 1])

\* m.serialize() has been called on the message of a round trip
Serialized == codec.test = "round_trip" /\ codec.pc # "constructed"

\* C36: serialize of a message with a field longer than 65535 bytes raises
\* struct.error and yields no bytes; of any other message it yields a header
\* whose every length field is the length of the field it was constructed
\* with, followed by exactly those fields at the boundaries declared.
C36_LengthFieldsDoNotWrap ==
    Serialized =>
        IF \E i \in 1..Len(FieldsOf(codec.cls, codec.m)) :
               Len(FieldsOf(codec.cls, codec.m)[i]) > 65535
        THEN codec.op = "serialize" /\ codec.pc = "raised"
             /\ codec.error = "struct.error" /\ codec.data = <<>>
        ELSE /\ \A i \in 1..Len(FieldsOf(codec.cls, codec.m)) :
                    /\ LengthField(codec.data, i) = Len(FieldsOf(codec.cls, codec.m)[i])
                    /\ Slice(codec.data,
                             FieldStart(codec.cls, FieldsOf(codec.cls, codec.m), i),
                             FieldStart(codec.cls, FieldsOf(codec.cls, codec.m), i + 1))
                       = FieldsOf(codec.cls, codec.m)[i]
             /\ Len(codec.data) =
                    FieldStart(codec.cls, FieldsOf(codec.cls, codec.m),
                               Len(FieldsOf(codec.cls, codec.m)) + 1)

\* serialize has raised on a ClientKeyExchange whose signature is 65536 bytes
\* long
C36_Witness ==
    /\ codec.pc = "raised"
    /\ codec.op = "serialize"
    /\ codec.error = "struct.error"
    /\ codec.cls = "ClientKeyExchangeMessage"
    /\ Len(codec.m.signature) = 65536

\* C37: init_step(true) sets the counter to 0; step(num, guard) on an
\* initialised counter returns true exactly when num is the counter plus one
\* and guard is true, and then the counter is one higher; otherwise it
\* returns false and the counter is as before.  The steps that have fired
\* since the last init_step(true) are 1, 2, ..., k in this order, k being the
\* counter.
C37_StepSequencing ==
    [][/\ tree'.op.name = "init_step" /\ tree'.op.guard =>
              tree'.result /\ tree'.self.step = 0
       /\ tree'.op.name = "init_step" /\ ~tree'.op.guard =>
              ~tree'.result /\ tree'.self.step = tree.self.step
       /\ tree'.op.name = "step" /\ tree'.exc = "none" =>
              IF tree'.op.num = tree.self.step + 1 /\ tree'.op.guard
              THEN tree'.result /\ tree'.self.step = tree.self.step + 1
              ELSE ~tree'.result /\ tree'.self.step = tree.self.step
       /\ tree'.self.step # -1 =>
              tree'.fired = [i \in 1..tree'.self.step |-> i]]_vars

\* step 2 has fired after step 1, and only these
C37_Witness ==
    /\ tree.op = [name |-> "step", num |-> 2, guard |-> TRUE]
    /\ tree.result
    /\ tree.self.step = 2
    /\ tree.fired = <<1, 2>>

=============================================================================
